---- MODULE Spec2Model ----
(***************************************************************************)
(* Model of the Dom / Dough wrapper library: the placeholder resolution    *)
(* engine DomContext.use, the component create step it calls, and the      *)
(* custom element base class DomElement with its registration function.    *)
(*                                                                         *)
(* The document tree is a store of element nodes.  A node is its index in  *)
(* the sequence `nodes`; 0 stands for "no node" (null).  Nodes are never   *)
(* freed: a node that was replaced stays in the store, detached.           *)
(***************************************************************************)
EXTENDS Integers, Sequences, FiniteSets, TLC

\* ------------------------------------------------------------------------
\* Bounds of the model
\* ------------------------------------------------------------------------
\* The node store never grows beyond this many nodes.
MaxNodes == 18
\* How many times use is called in a row on the same wrapper.
MaxUses == 2

\* ------------------------------------------------------------------------
\* Host tree primitives
\* ------------------------------------------------------------------------
NoNode == 0

\* String.prototype.toLowerCase on the names the model uses.
ToLowerCase(s) ==
    CASE s = "Magic" -> "magic"
      [] s = "Toes" -> "toes"
      [] s = "A-Box" -> "a-box"
      [] s = "Name" -> "name"
      [] s = "NAME" -> "name"
      [] s = "Size" -> "size"
      [] OTHER -> s

\* A template or an initial tree after parsing: the elements in document
\* order, each with the position of its parent in the same list (0: root).
T(tag, parent) == [tag |-> tag, parent |-> parent, attrs |-> <<>>]
TA(tag, parent, attrs) == [tag |-> tag, parent |-> parent, attrs |-> attrs]
At(name, value) == [name |-> name, value |-> value]

\* Element.matches(selector) for a type selector in an HTML document:
\* the parser stores tag names lower-cased, and a type selector matches
\* ignoring the case it was written in.
Matches(ns, n, selector) == ns[n].tag = ToLowerCase(selector)

\* A function on 1..n as the sequence of its values.
AsSeq(f) == SubSeq(f, 1, Len(f))

InSeq(x, s) == \E i \in 1..Len(s) : s[i] = x

\* Node.parentElement
ParentOf(ns, n) ==
    IF \E p \in 1..Len(ns) : InSeq(n, ns[p].kids)
    THEN CHOOSE p \in 1..Len(ns) : InSeq(n, ns[p].kids)
    ELSE NoNode

\* The subtree of n in document (pre-) order, n first.
RECURSIVE Preorder(_, _)
RECURSIVE PreorderAll(_, _)
Preorder(ns, n) == <<n>> \o PreorderAll(ns, ns[n].kids)
PreorderAll(ns, ks) ==
    IF ks = <<>> THEN <<>>
    ELSE Preorder(ns, Head(ks)) \o PreorderAll(ns, Tail(ks))

SelectMatching(ns, s, selector) ==
    SelectSeq(s, LAMBDA m : Matches(ns, m, selector))

\* Element.querySelectorAll(selector): the matching descendants of n,
\* n itself excluded, in document order.
QuerySelectorAll(ns, n, selector) ==
    SelectMatching(ns, Tail(Preorder(ns, n)), selector)

Without(s, x) == SelectSeq(s, LAMBDA y : y # x)

\* Taking a node out of the child list of its parent (no-op if detached).
Detach(ns, n) ==
    AsSeq([p \in 1..Len(ns) |-> [ns[p] EXCEPT !.kids = Without(@, n)]])

RECURSIVE DetachAll(_, _)
DetachAll(ns, s) ==
    IF s = <<>> THEN ns ELSE DetachAll(Detach(ns, Head(s)), Tail(s))

IndexOf(s, x) == CHOOSE i \in 1..Len(s) : s[i] = x

\* s with the element x replaced by the sequence r.
Splice(s, x, r) ==
    LET i == IndexOf(s, x)
    IN SubSeq(s, 1, i - 1) \o r \o SubSeq(s, i + 1, Len(s))

\* A replaceWith that takes the old node out and puts nothing in its place.
HostReplaceWith_RemoveOnly(ns, old, new) == Detach(ns, old)

\* ChildNode.replaceWith(node): nothing happens when the old node has no
\* parent; otherwise the new node leaves its own parent and takes the old
\* node's place.
HostReplaceWith(ns, old, new) ==
    LET p == ParentOf(ns, old)
    IN IF p = NoNode \/ old = new THEN ns
       ELSE LET ns1 == Detach(ns, new)
            IN [ns1 EXCEPT ![p].kids = Splice(@, old, <<new>>)]

\* Element.setAttribute(name, value)
SetAttribute(ns, n, name, value) ==
    IF \E i \in 1..Len(ns[n].attrs) : ns[n].attrs[i].name = name
    THEN [ns EXCEPT ![n].attrs =
            AsSeq([i \in 1..Len(@) |->
                IF @[i].name = name THEN At(name, value) ELSE @[i]])]
    ELSE [ns EXCEPT ![n].attrs = Append(@, At(name, value))]

\* Parsing markup into a detached tree of fresh nodes appended to the store.
Instantiate(ns, tmpl) ==
    LET base == Len(ns)
        kidsOf(i) ==
            LET idx == SelectSeq([j \in 1..Len(tmpl) |-> j],
                                 LAMBDA j : tmpl[j].parent = i)
            IN AsSeq([k \in 1..Len(idx) |-> base + idx[k]])
    IN ns \o [i \in 1..Len(tmpl) |->
                [tag |-> tmpl[i].tag, kids |-> kidsOf(i),
                 attrs |-> tmpl[i].attrs]]

\* ------------------------------------------------------------------------
\* DomContext.attr() with no arguments
\* ------------------------------------------------------------------------
\* null, the result of getAttribute for an attribute that is not there.
\* No attribute of the model has this value.
Null == "<null>"
\* undefined, the result of reading a key an options object does not have.
Undefined == "<undefined>"

GetAttributeNames(ns, n) ==
    AsSeq([i \in 1..Len(ns[n].attrs) |-> ns[n].attrs[i].name])

GetAttribute(ns, n, name) ==
    LET as == ns[n].attrs
    IN IF \E i \in 1..Len(as) : as[i].name = name
       THEN as[CHOOSE i \in 1..Len(as) : as[i].name = name].value
       ELSE Null

\* A reduce step that tests the value for truthiness, not for null.
AttrStep_SkipEmpty(opt, name, val) ==
    IF val = Null \/ val = "" THEN opt ELSE (name :> val) @@ opt

\* One step of the reduce in attr(): skip a null value, else opt[name] = val.
AttrStep(opt, name, val) ==
    IF val = Null THEN opt ELSE (name :> val) @@ opt

RECURSIVE AttrReduce(_, _, _, _)
AttrReduce(ns, n, names, opt) ==
    IF names = <<>> THEN opt
    ELSE AttrReduce(ns, n, Tail(names),
                    AttrStep(opt, Head(names), GetAttribute(ns, n, Head(names))))

\* attr(): the object mapping every attribute name to its value.
AttrAll(ns, n) == AttrReduce(ns, n, GetAttributeNames(ns, n), <<>>)

\* options.key
Option(options, key) ==
    IF key \in DOMAIN options THEN options[key] ELSE Undefined

\* attr(name, value) of a wrapper over n: a string sets, null removes, and
\* undefined makes the call the one-argument getter, which changes nothing.
AttrSet(ns, n, name, value) ==
    IF value = Undefined THEN ns
    ELSE IF value = Null
    THEN [ns EXCEPT ![n].attrs = SelectSeq(@, LAMBDA a : a.name # name)]
    ELSE SetAttribute(ns, n, name, value)

\* ------------------------------------------------------------------------
\* Component definitions and create
\* ------------------------------------------------------------------------
SlotTag == "slot"
\* The content argument of a create call that passes none.
NoContent == <<0>>

\* The first slot marker of an instance, the instance root included.
FirstSlot(ns, root) ==
    LET found == SelectSeq(Preorder(ns, root), LAMBDA m : ns[m].tag = SlotTag)
    IN IF found = <<>> THEN NoNode ELSE Head(found)

\* Slotting that appends the content to the marker's parent.
SlotFill_AtEnd(ns, slot, content) ==
    LET p == ParentOf(ns, slot)
    IN IF p = NoNode THEN ns
       ELSE LET ns1 == DetachAll(ns, content)
            IN [ns1 EXCEPT ![p].kids = Without(@, slot) \o content]

\* The content items take the place of the slot marker, in their order,
\* and the marker is removed.
SlotFill(ns, slot, content) ==
    LET p == ParentOf(ns, slot)
    IN IF p = NoNode THEN ns
       ELSE LET ns1 == DetachAll(ns, content)
            IN [ns1 EXCEPT ![p].kids = Splice(@, slot, content)]

\* Removing every slot marker of an instance.
RemoveSlots(ns, root) ==
    DetachAll(ns, SelectSeq(Preorder(ns, root), LAMBDA m : ns[m].tag = SlotTag))

\* The renderers of the model: the identity, and the renderer of the
\* parser demo, ctx.attr("data-apple", options.apple); return ctx.
Render(ns, renderer, root, options) ==
    IF renderer = "dataApple"
    THEN AttrSet(ns, root, "data-apple", Option(options, "apple"))
    ELSE ns

\* DomComponent.create(options, content): a fresh instance of the template,
\* slotted and rendered.  The result is the new store and the instance root.
Create(ns, def, options, content) ==
    LET ns1 == Instantiate(ns, def.template)
        root == Len(ns) + 1
        slot == FirstSlot(ns1, root)
        ns2 == IF content = NoContent THEN RemoveSlots(ns1, root)
               ELSE IF slot = NoNode THEN ns1
               ELSE SlotFill(ns1, slot, content)
    IN [ns |-> Render(ns2, def.renderer, root, options), root |-> root,
        slot |-> slot]

\* The component definitions of the model.  Magic and Toes are the two of
\* the parser demo; ABox renders a BBox placeholder; AWrap renders a BBox
\* placeholder as its very root; RBox renders its own placeholder; XBox and
\* YBox render each other's.
Def(selector, template, renderer) ==
    [selector |-> selector, template |-> template, renderer |-> renderer]

Magic == Def("Magic", <<T("button", 0), T("slot", 1)>>, "dataApple")
Toes == Def("Toes", <<T("span", 0), T("slot", 1)>>, "identity")
ABox == Def("A-Box", <<T("div", 0), T("h1", 1), T("slot", 1), T("b-box", 1)>>,
            "identity")
BBox == Def("b-box", <<TA("p", 0, <<At("class", "b")>>)>>, "identity")
AWrap == Def("a-box", <<T("b-box", 0), T("slot", 1)>>, "identity")
RBox == Def("r-box", <<T("div", 0), T("r-box", 1)>>, "identity")
XBox == Def("x-box", <<T("y-box", 0)>>, "identity")
YBox == Def("y-box", <<T("div", 0), T("x-box", 1), T("slot", 1)>>, "identity")

\* An argument of use that is no component, and a definition whose
\* renderer throws.
NotAComponent == Def(Undefined, <<>>, "none")
FailB == Def("b-box", <<T("p", 0)>>, "throws")

\* isComponent(component)
IsComponent(component) == component # NotAComponent

\* create does not come to an end: the renderer throws.
CreateFails(def) == def.renderer = "throws"

\* Argument lists with which use does not come to an end.
FaultyLists ==
    { <<ABox, NotAComponent>>, <<NotAComponent, ABox>>, <<ABox, FailB>>,
      <<FailB, ABox>>, <<FailB>> }

\* The argument lists use is called with.
ComponentLists ==
    { <<Toes, Magic>>, <<Magic, Toes>>, <<ABox, BBox>>, <<BBox, ABox>>,
      <<AWrap, BBox>>, <<BBox, AWrap>>, <<RBox>>, <<XBox, YBox>>, <<Toes>>, <<>> }

\* The trees use is called on, with the position of the wrapper's element.
\* The first is the tree of the parser demo, still inside the container
\* the parser built it in; the second is an element that was never given a
\* parent.
InitialTrees ==
    { [tree |-> <<T("div", 0), TA("magic", 1, <<At("apple", "2"), At("alt", "")>>),
                  T("toes", 2), T("toes", 2), T("toes", 2), T("span", 5)>>,
       root |-> 2],
      [tree |-> <<TA("a-box", 0, <<At("alt", ""), At("apple", "4")>>),
                  T("span", 1), T("em", 1)>>,
       root |-> 1],
      [tree |-> <<T("div", 0), TA("a-box", 1, <<At("id", "x")>>),
                  T("b-box", 1)>>,
       root |-> 1],
      [tree |-> <<T("div", 0), T("span", 1), T("p", 1)>>, root |-> 1],
      [tree |-> <<T("body", 0), T("toes", 1), T("toes", 2), T("span", 3),
                  T("magic", 2)>>,
       root |-> 2],
      [tree |-> <<T("main", 0), T("r-box", 1), T("x-box", 1)>>, root |-> 1],
      [tree |-> <<T("body", 0), TA("y-box", 1, <<At("apple", "")>>),
                  T("magic", 2)>>,
       root |-> 2] }

\* ------------------------------------------------------------------------
\* State
\* ------------------------------------------------------------------------
VARIABLES
    nodes,        \* the node store: tag, child elements, attributes
    ele,          \* DomContext.#ele of the wrapper use is called on
    components,   \* the argument list of use
    pc,           \* where the call of use stands
    changed,      \* the local variable of use
    ci,           \* position of the for loop over components
    prebuild,     \* $prebuild: the element of each wrapper of the match list
    idx,          \* position of the forEach over $prebuild
    ret,          \* what the last call returned
    useCalls,     \* calls of use so far
    passes,       \* passes of the do/while loop in the current call
    createLog,    \* one record per call of create
    nodesAtCall,  \* the store when the current call of use began
    eleAtCall     \* the wrapper's element when the current call began

useVars == <<nodes, ele, components, pc, changed, ci, prebuild, idx, ret,
             useCalls, passes, createLog, nodesAtCall, eleAtCall>>

ThisWrapper == "this"

\* findAll that never looks at the element itself.
FindAll_SkipRoot(ns, e, selector, inclusiveScope) ==
    QuerySelectorAll(ns, e, selector)

\* findAll that puts the element first without asking whether it matches.
FindAll_AlwaysRoot(ns, e, selector, inclusiveScope) ==
    IF inclusiveScope THEN <<e>> \o QuerySelectorAll(ns, e, selector)
    ELSE QuerySelectorAll(ns, e, selector)

\* findAll that pushes the element itself after its descendants.
FindAll_RootLast(ns, e, selector, inclusiveScope) ==
    LET selection == QuerySelectorAll(ns, e, selector)
    IN IF inclusiveScope /\ Matches(ns, e, selector)
       THEN selection \o <<e>>
       ELSE selection

\* DomContext.findAll(selector, inclusiveScope): the element of every
\* wrapper of the returned collection, the root first when it matches.
FindAll(ns, e, selector, inclusiveScope) ==
    LET selection == QuerySelectorAll(ns, e, selector)
    IN IF inclusiveScope /\ Matches(ns, e, selector)
       THEN <<e>> \o selection
       ELSE selection

InitUse ==
    /\ \E t \in InitialTrees :
         /\ nodes = Instantiate(<<>>, t.tree)
         /\ ele = t.root
    /\ components \in ComponentLists
    /\ pc = "idle"
    /\ changed = FALSE
    /\ ci = 0
    /\ prebuild = <<>>
    /\ idx = 0
    /\ ret = "none"
    /\ useCalls = 0
    /\ passes = 0
    /\ createLog = <<>>
    /\ nodesAtCall = <<>>
    /\ eleAtCall = NoNode

\* use(...components) is called: the do/while loop is entered.
UseCall ==
    /\ pc = "idle"
    /\ useCalls < MaxUses
    /\ useCalls' = useCalls + 1
    /\ nodesAtCall' = nodes
    /\ eleAtCall' = ele
    /\ passes' = 1
    /\ changed' = FALSE
    /\ ci' = 1
    /\ pc' = "scan"
    /\ ret' = "none"
    /\ UNCHANGED <<nodes, ele, components, prebuild, idx, createLog>>

\* The for loop reaches the next component and takes its match list.
UseScan ==
    /\ pc = "scan"
    /\ ci <= Len(components)
    /\ IsComponent(components[ci])
    /\ prebuild' = FindAll(nodes, ele, components[ci].selector, TRUE)
    /\ idx' = 1
    /\ pc' = "item"
    /\ UNCHANGED <<nodes, ele, components, changed, ci, ret, useCalls, passes,
                   createLog, nodesAtCall, eleAtCall>>

\* use that never takes an item for the wrapper's own element.
IsRootLevel_Never(e, itemElement) == FALSE

\* isRootLevel: the item wraps the element of the wrapper use runs on.
IsRootLevel(e, itemElement) == e = itemElement

\* One turn of the forEach callback: the placeholder is resolved.
UseItem ==
    /\ pc = "item"
    /\ idx <= Len(prebuild)
    /\ ~CreateFails(components[ci])
    /\ Len(nodes) + Len(components[ci].template) <= MaxNodes
    /\ \E item \in {prebuild[idx]} :
       \E options \in {AttrAll(nodes, item)} :
       \E made \in {Create(nodes, components[ci], options, nodes[item].kids)} :
          /\ nodes' = HostReplaceWith(made.ns, item, made.root)
          /\ prebuild' = [prebuild EXCEPT ![idx] = made.root]
          /\ ele' = IF IsRootLevel(ele, item) THEN made.root ELSE ele
          /\ createLog' = Append(createLog,
                [call |-> useCalls, pass |-> passes, def |-> ci,
                 placeholder |-> item, attrs |-> nodes[item].attrs,
                 options |-> options, content |-> nodes[item].kids,
                 root |-> made.root, slot |-> made.slot,
                 first |-> Len(nodes) + 1, last |-> Len(made.ns),
                 instance |-> SubSeq(made.ns, Len(nodes) + 1, Len(made.ns)),
                 wasRoot |-> (ele = item)])
    /\ changed' = TRUE
    /\ idx' = idx + 1
    /\ UNCHANGED <<components, pc, ci, ret, useCalls, passes, nodesAtCall,
                   eleAtCall>>

\* The forEach is over: on to the next component.
UseNextComponent ==
    /\ pc = "item"
    /\ idx > Len(prebuild)
    /\ ci' = ci + 1
    /\ pc' = "scan"
    /\ UNCHANGED <<nodes, ele, components, changed, prebuild, idx, ret,
                   useCalls, passes, createLog, nodesAtCall, eleAtCall>>

\* while (changed): another pass.
UseRepeat ==
    /\ pc = "scan"
    /\ ci > Len(components)
    /\ changed
    /\ changed' = FALSE
    /\ ci' = 1
    /\ passes' = passes + 1
    /\ UNCHANGED <<nodes, ele, components, pc, prebuild, idx, ret, useCalls,
                   createLog, nodesAtCall, eleAtCall>>

\* while (changed) fails: return this.
UseReturn ==
    /\ pc = "scan"
    /\ ci > Len(components)
    /\ ~changed
    /\ ret' = ThisWrapper
    /\ pc' = "idle"
    /\ UNCHANGED <<nodes, ele, components, changed, ci, prebuild, idx,
                   useCalls, passes, createLog, nodesAtCall, eleAtCall>>

\* A throw that undoes what the call has done to the tree.
Unwind_Restoring(ns, atCall) == atCall

\* A throw leaves use at once: there is no catch and no finally, and the
\* tree is as the turns before have left it.
Unwind(ns, atCall) == ns

\* throw new TypeError("Component is not a component.")
UseThrowNotComponent ==
    /\ pc = "scan"
    /\ ci <= Len(components)
    /\ ~IsComponent(components[ci])
    /\ nodes' = Unwind(nodes, nodesAtCall)
    /\ ret' = "TypeError"
    /\ pc' = "idle"
    /\ UNCHANGED <<ele, components, changed, ci, prebuild, idx, useCalls,
                   passes, createLog, nodesAtCall, eleAtCall>>

\* create throws in a turn of the forEach: the turn and the call end there.
UseThrowCreate ==
    /\ pc = "item"
    /\ idx <= Len(prebuild)
    /\ CreateFails(components[ci])
    /\ nodes' = Unwind(nodes, nodesAtCall)
    /\ ret' = "Error"
    /\ pc' = "idle"
    /\ UNCHANGED <<ele, components, changed, ci, prebuild, idx, useCalls,
                   passes, createLog, nodesAtCall, eleAtCall>>

\* use called with the faulty argument lists.
InitUseFaulty ==
    /\ \E t \in InitialTrees :
         /\ nodes = Instantiate(<<>>, t.tree)
         /\ ele = t.root
    /\ components \in FaultyLists
    /\ pc = "idle"
    /\ changed = FALSE
    /\ ci = 0
    /\ prebuild = <<>>
    /\ idx = 0
    /\ ret = "none"
    /\ useCalls = 0
    /\ passes = 0
    /\ createLog = <<>>
    /\ nodesAtCall = <<>>
    /\ eleAtCall = NoNode

\* ------------------------------------------------------------------------
\* component(cls) and the DomElement constructor
\* ------------------------------------------------------------------------
\* How many classes the registry may hold, and how many elements are built.
MaxDefines == 2
MaxConstructs == 2

VARIABLES
    registry,     \* customElements: the set of [name, cls] pairs defined
    defineCalls,  \* every call of customElements.define, in order
    inst,         \* the DomElement built last: its class and shadow root
    elements,     \* how many elements parsing and cloning have made
    constructs,   \* how many DomElements have been built
    tplParent,    \* the parent of the element a template() hands out
    lastOp        \* what the last operation was given and what it did

elemVars == <<registry, defineCalls, inst, elements, constructs, tplParent, lastOp>>

\* A custom element class: its name ("" for an anonymous class expression),
\* its static tagName and css, and the markup its template() returns.
Class(name, tagName, css) ==
    [name |-> name, tagName |-> tagName, css |-> css,
     template |-> "<div><h1>Hi</h1><slot></slot></div>"]

Classes ==
    { Class("", Undefined, Undefined),
      Class("", "", ""),
      Class("WelcomeBox", Undefined, "div { color: red }"),
      Class("UserCard", "", Undefined),
      Class("", "welcome-box", "div { color: red }"),
      Class("WelcomeBox", "welcome-box", Undefined),
      Class("UserCard", "user-card", ""),
      Class("UserCard", "welcome-box", "div { color: red }") }

NoInst == [built |-> FALSE]
NoOp == [op |-> "none"]

\* A test that takes the empty string for a tag name.
HasTagName_Defined(tagName) == tagName # Undefined

\* !element.tagName is false
HasTagName(tagName) == tagName # Undefined /\ tagName # ""

\* The message of the Error component throws.
MissingTagMessage(name) ==
    IF name = ""
    THEN "An anonymous custom element class is missing the static 'tagName' property."
    ELSE "The custom element class '" \o name
            \o "' is missing the static 'tagName' property."

\* customElements.define refuses a name or a class that is already defined.
HostDefineThrows(reg, tagName, cls) ==
    \E r \in reg : r.name = tagName \/ r.cls = cls

InitElem ==
    /\ registry = {}
    /\ defineCalls = <<>>
    /\ inst = NoInst
    /\ elements = 0
    /\ constructs = 0
    /\ tplParent = "holder"
    /\ lastOp = NoOp

\* Nothing defined and nothing built; the element that template() hands
\* out stands below a holder element or is detached.
InitElemAny ==
    /\ registry = {}
    /\ defineCalls = <<>>
    /\ inst = NoInst
    /\ elements = 0
    /\ constructs = 0
    /\ tplParent \in {"holder", "none"}
    /\ lastOp = NoOp

\* component(cls)
Component(cls) ==
    /\ IF ~HasTagName(cls.tagName)
       THEN /\ lastOp' = [op |-> "component", cls |-> cls, threw |-> TRUE,
                          message |-> MissingTagMessage(cls.name),
                          registryBefore |-> registry,
                          definesBefore |-> defineCalls]
            /\ UNCHANGED <<registry, defineCalls>>
       ELSE /\ Len(defineCalls) < MaxDefines
            /\ defineCalls' = Append(defineCalls,
                                     [name |-> cls.tagName, cls |-> cls])
            /\ registry' =
                 IF HostDefineThrows(registry, cls.tagName, cls) THEN registry
                 ELSE registry \cup {[name |-> cls.tagName, cls |-> cls]}
            /\ lastOp' = [op |-> "component", cls |-> cls,
                          threw |-> HostDefineThrows(registry, cls.tagName, cls),
                          message |-> "host",
                          registryBefore |-> registry,
                          definesBefore |-> defineCalls]
    /\ UNCHANGED <<inst, elements, constructs, tplParent>>

\* A test that takes the empty string for css.
CssPresent_Defined(css) == css # Undefined

\* if (construct.css)
CssPresent(css) == css # Undefined /\ css # ""

\* The constructor's arguments: none, or one ShadowRootInit.
NoArgs == <<>>
\* The default of the constructor's parameter.
ShadowOptions(args) == IF args = NoArgs THEN [mode |-> "open"] ELSE args[1]

StyleNode(css) == [kind |-> "style", text |-> css]
ContentNode(id, markup) == [kind |-> "element", node |-> id, markup |-> markup]

\* The children of the shadow root after the constructor's appends.
ShadowChildren(css, content) ==
    (IF CssPresent(css) THEN <<StyleNode(css)>> ELSE <<>>) \o <<content>>

\* What template() returns: markup, or an element the class keeps: one
\* that stands below a holder element, or a detached one.
TemplateKinds == {"markup", "element"}
\* The element that template() returns when it returns an element.
TemplateElement == 0

\* dom(this.template()).element: the element parsed from the markup, a new
\* one, or the element given.
Wrapped(tpl, made) == IF tpl = "markup" THEN made + 1 ELSE TemplateElement

\* How many elements dom(this.template()) makes.
Parses(tpl) == IF tpl = "markup" THEN 1 ELSE 0

\* An append that leaves the appended node where it was.
AppendChild_Copies(parent, appended, node) == parent

\* shadowRoot.appendChild(appended): the parent of node afterwards. The
\* host moves the appended node out of its parent.
AppendChild(parent, appended, node) ==
    IF appended = node THEN "shadow" ELSE parent

\* new cls(shadowOptions), the constructor of component.ts: the element
\* that dom(this.template()) wraps is appended itself.  The host refuses
\* to construct a class that is not defined.
Construct(cls, args, tpl) ==
    /\ \E r \in registry : r.cls = cls
    /\ constructs < MaxConstructs
    /\ constructs' = constructs + 1
    /\ elements' = elements + Parses(tpl)
    /\ inst' = [built |-> TRUE, cls |-> cls,
                mode |-> ShadowOptions(args).mode,
                shadow |-> ShadowChildren(cls.css,
                              ContentNode(Wrapped(tpl, elements), cls.template))]
    /\ tplParent' = AppendChild(tplParent, Wrapped(tpl, elements), TemplateElement)
    /\ lastOp' = [op |-> "construct", cls |-> cls, args |-> args,
                  templateNode |-> Wrapped(tpl, elements),
                  tpl |-> tpl, cloning |-> FALSE, parentBefore |-> tplParent]
    /\ UNCHANGED <<registry, defineCalls>>

\* new cls(shadowMode), the constructor that appends a clone of the
\* element dom(this.template()) wraps.
ConstructCloning(cls, givenMode, tpl) ==
    /\ \E r \in registry : r.cls = cls
    /\ constructs < MaxConstructs
    /\ constructs' = constructs + 1
    /\ elements' = elements + Parses(tpl) + 1
    /\ inst' = [built |-> TRUE, cls |-> cls,
                mode |-> IF givenMode = Undefined THEN "open" ELSE givenMode,
                shadow |-> ShadowChildren(cls.css,
                              ContentNode(elements + Parses(tpl) + 1,
                                          cls.template))]
    /\ tplParent' = AppendChild(tplParent, elements + Parses(tpl) + 1,
                                TemplateElement)
    /\ lastOp' = [op |-> "construct", cls |-> cls,
                  args |-> IF givenMode = Undefined THEN NoArgs
                           ELSE <<[mode |-> givenMode]>>,
                  templateNode |-> Wrapped(tpl, elements),
                  tpl |-> tpl, cloning |-> TRUE, parentBefore |-> tplParent]
    /\ UNCHANGED <<registry, defineCalls>>

ShadowModes == {"open", "closed"}

NextElem ==
    \/ \E cls \in Classes : Component(cls)
    \/ \E cls \in Classes : \E tpl \in TemplateKinds :
         \E args \in {NoArgs} \cup {<<o>> : o \in [mode : ShadowModes]} :
            Construct(cls, args, tpl)
    \/ \E cls \in Classes : \E tpl \in TemplateKinds :
         \E givenMode \in {Undefined} \cup ShadowModes :
            ConstructCloning(cls, givenMode, tpl)

\* ------------------------------------------------------------------------
\* DomElement: hook registration and lifecycle dispatch
\* ------------------------------------------------------------------------
\* How many hooks are registered on the instance by its own code.
MaxEffects == 3

VARIABLES
    effects,   \* _mountEffects, _unmountEffects, _adoptEffects, _changeEffects
    regs,      \* every registration made, in order, as it was given
    lifeOp     \* the last operation on the instance and what it invoked

lifeVars == <<effects, regs, lifeOp>>

\* The callbacks of the model.  "reg" is a callback that, when invoked,
\* registers the callback "late" with mountEffect unless it has done so.
LifeCallbacks == {"f", "reg"}
ChangeCallbacks == {"f", "g"}
RegisteredNames == {"Name", "name", "Size"}
ChangedNames == {"NAME", "size", "id"}

\* The field initialisers of a new instance.
NewEffects == [mount |-> <<>>, unmount |-> <<>>, adopt |-> <<>>, change |-> <<>>]

InitLife ==
    /\ effects = NewEffects
    /\ regs = <<>>
    /\ lifeOp = [op |-> "none", invoked |-> <<>>]

LifeIdle == InitLife

Reg(kind, name, cb) == [kind |-> kind, name |-> name, cb |-> cb]

CanRegister == Len(regs) < MaxEffects

\* Registration at the front of the list.
Push_Front(list, cb) == <<cb>> \o list

\* list.push(callback)
Push(list, cb) == Append(list, cb)

\* mountEffect(cb), unmountEffect(cb), adoptEffect(cb)
MountEffect(cb) ==
    /\ CanRegister
    /\ effects' = [effects EXCEPT !.mount = Push(@, cb)]
    /\ regs' = Append(regs, Reg("mount", "", cb))
    /\ lifeOp' = [op |-> "register", invoked |-> <<>>]

UnmountEffect(cb) ==
    /\ CanRegister
    /\ effects' = [effects EXCEPT !.unmount = Push(@, cb)]
    /\ regs' = Append(regs, Reg("unmount", "", cb))
    /\ lifeOp' = [op |-> "register", invoked |-> <<>>]

AdoptEffect(cb) ==
    /\ CanRegister
    /\ effects' = [effects EXCEPT !.adopt = Push(@, cb)]
    /\ regs' = Append(regs, Reg("adopt", "", cb))
    /\ lifeOp' = [op |-> "register", invoked |-> <<>>]

\* Registration under the name as written.
ChangeKey_Raw(name) == name

\* The key of _changeEffects a name is registered under.
ChangeKey(name) == ToLowerCase(name)

\* changeEffect(name, cb)
ChangeEffect(name, cb) ==
    /\ CanRegister
    /\ LET lowerName == ChangeKey(name)
           had == IF lowerName \in DOMAIN effects.change
                  THEN effects.change[lowerName] ELSE <<>>
       IN effects' = [effects EXCEPT
                        !.change = (lowerName :> Push(had, cb)) @@ @]
    /\ regs' = Append(regs, Reg("change", name, cb))
    /\ lifeOp' = [op |-> "register", invoked |-> <<>>]

Invocation(cb, args) == [cb |-> cb, args |-> args]

\* Invoking a lifecycle callback: st holds the effect lists, the
\* registrations and the invocations of the running dispatch.
Call(st, cb) ==
    LET st1 == [st EXCEPT !.invoked = Append(@, Invocation(cb, <<>>))]
    IN IF cb = "reg" /\ ~InSeq("late", st.effects.mount)
       THEN [st1 EXCEPT !.effects.mount = Push(@, "late"),
                        !.regs = Append(@, Reg("mount", "", "late"))]
       ELSE st1

\* for (let i = 0; i < list.length; i++) list[i]()
RECURSIVE Walk(_, _, _)
Walk(st, kind, i) ==
    IF i > Len(st.effects[kind]) THEN st
    ELSE Walk(Call(st, st.effects[kind][i]), kind, i + 1)

RunEffects(st, kind) == Walk(st, kind, 1)

Dispatch(op, kind) ==
    \E st \in {RunEffects([effects |-> effects, regs |-> regs,
                           invoked |-> <<>>], kind)} :
        /\ effects' = st.effects
        /\ regs' = st.regs
        /\ lifeOp' = [op |-> op, invoked |-> st.invoked]

\* The host's signals.
ConnectedCallback == Dispatch("connected", "mount")
DisconnectedCallback == Dispatch("disconnected", "unmount")
AdoptedCallback == Dispatch("adopted", "adopt")

\* The key attributeChangedCallback looks a name up under.
LookupKey(name) == ToLowerCase(name)

\* The callbacks attributeChangedCallback invokes, each with the details.
ChangeInvocations(change, name, oldValue, newValue) ==
    LET lowerName == LookupKey(name)
    IN IF lowerName \in DOMAIN change
       THEN AsSeq([i \in 1..Len(change[lowerName]) |->
                Invocation(change[lowerName][i],
                    <<[oldValue |-> oldValue, newValue |-> newValue]>>)])
       ELSE <<>>

AttributeChangedCallback(name, oldValue, newValue) ==
    /\ lifeOp' = [op |-> "attributeChanged", name |-> name,
                  oldValue |-> oldValue, newValue |-> newValue,
                  invoked |-> ChangeInvocations(effects.change, name,
                                                oldValue, newValue)]
    /\ UNCHANGED <<effects, regs>>

\* The attribute changes the host reports: set, removed.
Changes == {<<Null, "b">>, <<"a", Null>>}

NextLife ==
    \/ \E cb \in LifeCallbacks : MountEffect(cb)
    \/ \E cb \in LifeCallbacks : UnmountEffect(cb)
    \/ \E cb \in LifeCallbacks : AdoptEffect(cb)
    \/ \E name \in RegisteredNames : \E cb \in ChangeCallbacks :
          ChangeEffect(name, cb)
    \/ ConnectedCallback
    \/ DisconnectedCallback
    \/ AdoptedCallback
    \/ \E name \in ChangedNames : \E c \in Changes :
          AttributeChangedCallback(name, c[1], c[2])

\* ------------------------------------------------------------------------
\* Event helpers: $$ and $, wrappers, collections, window and document
\* ------------------------------------------------------------------------
\* How many on / once / off calls are made.
MaxEvCalls == 2

VARIABLES
    listeners,   \* the host's event listener list of every event target
    evCalls,     \* on / once / off calls made so far
    evOp         \* the last call or event: what it was given and what it did

evVars == <<listeners, evCalls, evOp>>

\* Strings are sequences of characters.
EvA == <<"a">>
EvB == <<"b">>
EvAB == <<"a", " ", "b">>
Space == " "

\* split that hands back the string as its only piece.
Split_Whole(s, sep) == <<s>>

\* String.prototype.split(sep) for a separator of one character.
RECURSIVE SplitFrom(_, _, _)
SplitFrom(s, sep, cur) ==
    IF s = <<>> THEN <<cur>>
    ELSE IF Head(s) = sep THEN <<cur>> \o SplitFrom(Tail(s), sep, <<>>)
    ELSE SplitFrom(Tail(s), sep, Append(cur, Head(s)))

Split(s, sep) == SplitFrom(s, sep, <<>>)

EvTargets == {"window", "e1", "e2"}
EvCallbacks == {"cb1", "cb2"}
EventArgs == {EvA, EvAB}
EventTypes == {EvA, EvB, EvAB}
EvOps == {"on", "once", "off"}

\* EventTarget.addEventListener(type, callback, {once}): a listener with
\* the same type and callback is not added twice.
AddEventListener(ls, type, cb, once) ==
    IF \E i \in 1..Len(ls) : ls[i].type = type /\ ls[i].cb = cb THEN ls
    ELSE Append(ls, [type |-> type, cb |-> cb, once |-> once])

\* A removal of every listener of the type.
RemoveEventListener_AnyCallback(ls, type, cb) ==
    SelectSeq(ls, LAMBDA l : l.type # type)

\* EventTarget.removeEventListener(type, callback)
RemoveEventListener(ls, type, cb) ==
    SelectSeq(ls, LAMBDA l : ~(l.type = type /\ l.cb = cb))

\* $$.on / $$.once / $$.off(target, event, callback): the event string goes
\* to the host as it is.
GlobalCall(L, op, target, event, cb) ==
    [L EXCEPT ![target] =
        CASE op = "on" -> AddEventListener(@, event, cb, FALSE)
          [] op = "once" -> AddEventListener(@, event, cb, TRUE)
          [] op = "off" -> RemoveEventListener(@, event, cb)]

\* for (const event of events) one host call
RECURSIVE ForEachEvent(_, _, _, _, _)
ForEachEvent(L, op, target, events, cb) ==
    IF events = <<>> THEN L
    ELSE ForEachEvent(GlobalCall(L, op, target, Head(events), cb),
                      op, target, Tail(events), cb)

\* $.on / $.once / $.off(target, events, callback): one host call for each
\* piece of events.split(" ").
CommonCall(L, op, target, events, cb) ==
    ForEachEvent(L, op, target, Split(events, Space), cb)

\* The objects whose on / once / off are called.  A wrapper and a
\* collection come in the two versions of the context module: the one
\* built on $$ and the one built on $.
Wrapper(helper, target) == [kind |-> "wrapper", helper |-> helper, target |-> target]
Collection(helper, members) ==
    [kind |-> "collection", helper |-> helper, members |-> members]
\* What the getters $.window and $.document return.
Capability(target) == [kind |-> "capability", target |-> target]
\* What $(window) and $(document) return.
DomLikeOf(target) == [kind |-> "domlike", target |-> target]
\* The object $ itself.
CommonObject == [kind |-> "common"]
NoValue == [kind |-> "undefined"]

Helpers == {"global", "common"}

Receivers ==
    {Wrapper(h, "e1") : h \in Helpers}
      \cup {Collection(h, <<Wrapper(h, "e1"), Wrapper(h, "e2")>>) : h \in Helpers}
      \cup {Capability("window"), DomLikeOf("window")}

HelperCall(L, helper, op, target, events, cb) ==
    IF helper = "common" THEN CommonCall(L, op, target, events, cb)
    ELSE GlobalCall(L, op, target, events, cb)

\* DomContext.on / once / off
WrapperCall(L, w, op, events, cb) ==
    HelperCall(L, w.helper, op, w.target, events, cb)

\* DomCollection.on / once / off: for (const $ele of this) $ele.on(...)
RECURSIVE CollectionCall(_, _, _, _, _)
CollectionCall(L, members, op, events, cb) ==
    IF members = <<>> THEN L
    ELSE CollectionCall(WrapperCall(L, Head(members), op, events, cb),
                        Tail(members), op, events, cb)

\* The listeners after receiver.op(events, cb).
MethodEffect(L, r, op, events, cb) ==
    CASE r.kind = "wrapper" -> WrapperCall(L, r, op, events, cb)
      [] r.kind = "collection" -> CollectionCall(L, r.members, op, events, cb)
      [] r.kind = "capability" -> CommonCall(L, op, r.target, events, cb)
      [] r.kind = "domlike" -> GlobalCall(L, op, r.target, events, cb)

\* What receiver.op(events, cb) returns: `this`, which inside the arrow
\* functions of the getters $.window and $.document is the object $.
MethodReturn(r) ==
    IF r.kind = "capability" THEN CommonObject ELSE r

InitEv ==
    /\ listeners = [t \in EvTargets |-> <<>>]
    /\ evCalls = 0
    /\ evOp = [op |-> "none"]

EvIdle == InitEv

\* helper.op(target, events, cb) of $$ or $
EvHelperCall(helper, op, target, events, cb) ==
    /\ evCalls < MaxEvCalls
    /\ evCalls' = evCalls + 1
    /\ listeners' = HelperCall(listeners, helper, op, target, events, cb)
    /\ evOp' = [op |-> op, via |-> "helper", helper |-> helper,
                targets |-> <<target>>, events |-> events, cb |-> cb,
                threw |-> FALSE, returned |-> NoValue, before |-> listeners]

\* The event targets a receiver stands for.
TargetsOf(r) ==
    IF r.kind = "collection"
    THEN AsSeq([i \in 1..Len(r.members) |-> r.members[i].target])
    ELSE <<r.target>>

HelperOf(r) ==
    CASE r.kind \in {"wrapper", "collection"} -> r.helper
      [] r.kind = "capability" -> "common"
      [] r.kind = "domlike" -> "global"

\* receiver.op(events, cb)
EvMethodCall(r, op, events, cb) ==
    /\ evCalls < MaxEvCalls
    /\ evCalls' = evCalls + 1
    /\ listeners' = MethodEffect(listeners, r, op, events, cb)
    /\ evOp' = [op |-> op, via |-> "method", receiver |-> r,
                helper |-> HelperOf(r), targets |-> TargetsOf(r),
                events |-> events, cb |-> cb, threw |-> FALSE,
                returned |-> MethodReturn(r), before |-> listeners,
                chained |-> FALSE]

\* The second call of a chain: op(events, cb) on what the last method
\* call returned.  On the object $ the two arguments land in the
\* parameters target and events, and events.split is not a function.
EvChainCall(op, events, cb) ==
    /\ evCalls < MaxEvCalls
    /\ evOp.op \in EvOps
    /\ evOp.via = "method"
    /\ ~evOp.threw
    /\ evCalls' = evCalls + 1
    /\ IF evOp.returned.kind = "common"
       THEN /\ UNCHANGED listeners
            /\ evOp' = [op |-> op, via |-> "method", receiver |-> evOp.receiver,
                        helper |-> evOp.helper, targets |-> evOp.targets,
                        events |-> events, cb |-> cb, threw |-> TRUE,
                        returned |-> NoValue, before |-> listeners,
                        chained |-> TRUE]
       ELSE /\ listeners' = MethodEffect(listeners, evOp.returned, op, events, cb)
            /\ evOp' = [op |-> op, via |-> "method", receiver |-> evOp.returned,
                        helper |-> evOp.helper, targets |-> evOp.targets,
                        events |-> events, cb |-> cb, threw |-> FALSE,
                        returned |-> MethodReturn(evOp.returned),
                        before |-> listeners, chained |-> TRUE]

\* The callbacks the host invokes for an event of the given type.
Invoked(ls, type) ==
    LET hit == SelectSeq(ls, LAMBDA l : l.type = type)
    IN AsSeq([i \in 1..Len(hit) |-> hit[i].cb])

\* The host dispatches an event at a target: the listeners of its type run
\* in order, and those added with once are removed.
EvDispatch(target, type) ==
    /\ evOp.op # "dispatch"
    /\ listeners' = [listeners EXCEPT ![target] =
                        SelectSeq(@, LAMBDA l : ~(l.type = type /\ l.once))]
    /\ evOp' = [op |-> "dispatch", target |-> target, type |-> type,
                invoked |-> Invoked(listeners[target], type),
                before |-> listeners]
    /\ UNCHANGED evCalls

NextEv ==
    \/ \E h \in Helpers : \E op \in EvOps : \E t \in {"e1"} :
       \E events \in EventArgs : \E cb \in EvCallbacks :
          EvHelperCall(h, op, t, events, cb)
    \/ \E r \in Receivers : \E op \in EvOps :
       \E events \in EventArgs : \E cb \in EvCallbacks :
          EvMethodCall(r, op, events, cb)
    \/ \E op \in EvOps : \E events \in EventArgs : \E cb \in EvCallbacks :
          EvChainCall(op, events, cb)
    \/ \E t \in EvTargets : \E type \in EventTypes : EvDispatch(t, type)

\* ------------------------------------------------------------------------
\* dom(input), parse(markup) and DomContext.replaceWith(content)
\* ------------------------------------------------------------------------
\* How many dom and replaceWith calls are made.
MaxDomOps == 2

VARIABLES
    tree,        \* the node store of the page: the document and detached nodes
    wraps,       \* wrapper i (a DomContext) has #ele = wraps[i]
    ctxVersion,  \* which context module the page loads: 3 (part_003) or 4
    domOps,      \* dom and replaceWith calls made so far
    domOp        \* the last call: what it was given and what it did

domVars == <<tree, wraps, ctxVersion, domOps, domOp>>

\* temp.children[0] of a container without child elements.
UndefinedNode == 0 - 1
\* The wrapper dom returns when it returns null.
NullWrapper == 0
\* document.documentElement in the store.
DocRoot == 1

\* The strings of the model, character by character.
StrP == <<"<", "p", ">">>
StrComment == <<"<", "!", "-", "-", "x", "-", "-", ">">>
StrTwo == <<"<", "i", ">", "<", "/", "i", ">", "<", "b", ">">>
StrEmptyTag == <<"<", ">">>
SelH3 == <<"h", "3">>
SelP == <<"p">>
SelEm == <<"e", "m">>

\* isHTML(input): /<.+>/ finds a "<", then one or more characters other
\* than a line break, then a ">".
IsHTML(input) ==
    \E i, j \in 1..Len(input) :
        /\ input[i] = "<"
        /\ input[j] = ">"
        /\ j >= i + 2
        /\ \A k \in (i + 1)..(j - 1) : input[k] # "\n"

\* What the host's parser makes of a string assigned to innerHTML of a
\* container at position 1: the elements it builds, in document order.
InnerHTML(input) ==
    CASE input = StrP -> <<T("p", 1)>>
      [] input = StrTwo -> <<T("i", 1), T("b", 1)>>
      [] OTHER -> <<>>

\* A string the host does not take for a selector: querySelector throws.
InvalidSelector == "<invalid>"

\* The type selector a selector string is.
SelectorText(input) ==
    CASE input = SelH3 -> "h3"
      [] input = SelP -> "p"
      [] input = SelEm -> "em"
      [] OTHER -> InvalidSelector

\* parse(input) / parseHTML(input): a fresh div takes the markup as
\* innerHTML, and temp.children[0] is returned.
Parse(ns, input) ==
    LET ns1 == Instantiate(ns, <<T("div", 0)>> \o InnerHTML(input))
        temp == Len(ns) + 1
    IN [ns |-> ns1,
        node |-> IF ns1[temp].kids = <<>> THEN UndefinedNode
                 ELSE ns1[temp].kids[1]]

\* querySelector that hands back the last match.
QuerySelector_Last(ns, root, selector) ==
    LET found == SelectMatching(ns, Preorder(ns, root), selector)
    IN IF found = <<>> THEN NoNode ELSE found[Len(found)]

\* document.querySelector(selector): the first match in document order.
QuerySelector(ns, root, selector) ==
    LET found == SelectMatching(ns, Preorder(ns, root), selector)
    IN IF found = <<>> THEN NoNode ELSE Head(found)

\* The inputs of dom.
StringInput(chars) == [kind |-> "string", chars |-> chars]
NodeInput(n) == [kind |-> "node", node |-> n]
WrapperInput(w) == [kind |-> "wrapper", wrapper |-> w]
\* A function that returns the given content when called.
CallbackInput(result) == [kind |-> "callback", result |-> result]

\* dom(input): the store and the wrappers after the call, and the wrapper
\* returned.
DomOf(ns, ws, input) ==
    CASE input.kind = "string" ->
            IF IsHTML(input.chars)
            THEN LET p == Parse(ns, input.chars)
                 IN [ns |-> p.ns, ws |-> Append(ws, p.node), ret |-> Len(ws) + 1,
                     threw |-> FALSE]
            ELSE IF SelectorText(input.chars) = InvalidSelector
            THEN [ns |-> ns, ws |-> ws, ret |-> NullWrapper, threw |-> TRUE]
            ELSE LET element == QuerySelector(ns, DocRoot, SelectorText(input.chars))
                 IN IF element = NoNode
                    THEN [ns |-> ns, ws |-> ws, ret |-> NullWrapper,
                          threw |-> FALSE]
                    ELSE [ns |-> ns, ws |-> Append(ws, element),
                          ret |-> Len(ws) + 1, threw |-> FALSE]
      [] input.kind = "node" ->
            [ns |-> ns, ws |-> Append(ws, input.node), ret |-> Len(ws) + 1,
             threw |-> FALSE]
      [] input.kind = "wrapper" ->
            [ns |-> ns, ws |-> ws, ret |-> input.wrapper, threw |-> FALSE]

\* new is old's parent or an ancestor of it: the host refuses to put a
\* node in the place of one of its own descendants.
RECURSIVE IsAncestor(_, _, _)
IsAncestor(ns, a, n) ==
    LET p == ParentOf(ns, n)
    IN IF p = NoNode THEN FALSE
       ELSE IF p = a THEN TRUE
       ELSE IsAncestor(ns, a, p)

\* The element replaceWith goes on with: dom(content)?.element ?? null
ResolvedNode(d) ==
    IF d.ret = NullWrapper THEN NoNode
    ELSE IF d.ws[d.ret] = UndefinedNode THEN NoNode
    ELSE d.ws[d.ret]

\* replaceWith that leaves #ele as it is and returns this.
Reseat_Keep(version, ws, w, node) == [ws |-> ws, ret |-> w]

\* What replaceWith does to the wrappers once the host has replaced the
\* node: the module with `this.#ele = node; return this` (part_004) and
\* the one with `return new DomContext(node)` (part_003).
Reseat(version, ws, w, node) ==
    IF version = 4
    THEN [ws |-> [ws EXCEPT ![w] = node], ret |-> w]
    ELSE [ws |-> Append(ws, node), ret |-> Len(ws) + 1]

\* replaceWith(content) of wrapper w for a content that is not a function.
ReplaceWithParsable(version, ns, ws, w, content) ==
    LET d == DomOf(ns, ws, content)
        node == ResolvedNode(d)
        old == d.ws[w]
    IN IF d.threw
       THEN [ns |-> d.ns, ws |-> d.ws, ret |-> NullWrapper, node |-> NoNode,
             threw |-> TRUE]
       ELSE IF node = NoNode
       THEN [ns |-> d.ns, ws |-> d.ws, ret |-> w, node |-> NoNode,
             threw |-> FALSE]
       ELSE IF old = UndefinedNode \/ IsAncestor(d.ns, node, old)
       THEN [ns |-> d.ns, ws |-> d.ws, ret |-> NullWrapper, node |-> node,
             threw |-> TRUE]
       ELSE LET r == Reseat(version, d.ws, w, node)
            IN [ns |-> HostReplaceWith(d.ns, old, node), ws |-> r.ws,
                ret |-> r.ret, node |-> node, threw |-> FALSE]

\* replaceWith(content): a function is called with the wrapper and its
\* result is replaced with; part_004 then returns this, part_003 what the
\* inner call returned.
ReplaceWithOf(version, ns, ws, w, content) ==
    IF content.kind = "callback"
    THEN LET r == ReplaceWithParsable(version, ns, ws, w, content.result)
         IN [r EXCEPT !.ret = IF version = 4 /\ ~r.threw THEN w ELSE @]
              @@ [calls |-> <<w>>]
    ELSE ReplaceWithParsable(version, ns, ws, w, content) @@ [calls |-> <<>>]

\* The page: html > (h3, p > span, p), and two wrappers made earlier with
\* dom(node), over the h3 and over the span.
InitDom ==
    /\ tree = Instantiate(<<>>, <<T("html", 0), T("h3", 1), T("p", 1),
                                  T("span", 3), T("p", 1)>>)
    /\ wraps = <<2, 4>>
    /\ ctxVersion \in {3, 4}
    /\ domOps = 0
    /\ domOp = [op |-> "none"]

DomIdle ==
    /\ tree = <<>>
    /\ wraps = <<>>
    /\ ctxVersion = 4
    /\ domOps = 0
    /\ domOp = [op |-> "none"]

DomInputs ==
    {StringInput(c) : c \in {StrP, StrComment, StrTwo, StrEmptyTag,
                             SelH3, SelP, SelEm}}
      \cup {NodeInput(n) : n \in {2, 3}}
      \cup {WrapperInput(w) : w \in 1..Len(wraps)}

\* dom(input)
DomCall(input) ==
    /\ domOps < MaxDomOps
    /\ domOps' = domOps + 1
    /\ \E d \in {DomOf(tree, wraps, input)} :
          /\ tree' = d.ns
          /\ wraps' = d.ws
          /\ domOp' = [op |-> "dom", input |-> input, returned |-> d.ret,
                       threw |-> d.threw, treeBefore |-> tree,
                       wrapsBefore |-> wraps]
    /\ UNCHANGED ctxVersion

ReplaceContents ==
    {StringInput(c) : c \in {StrP, StrTwo, StrComment, SelH3, SelP, SelEm}}
      \cup {NodeInput(3)}
      \cup {WrapperInput(w) : w \in 1..Len(wraps)}
      \cup {CallbackInput(StringInput(StrP)), CallbackInput(WrapperInput(1))}

\* w.replaceWith(content)
ReplaceWith(w, content) ==
    /\ domOps < MaxDomOps
    /\ domOps' = domOps + 1
    /\ \E r \in {ReplaceWithOf(ctxVersion, tree, wraps, w, content)} :
          /\ tree' = r.ns
          /\ wraps' = r.ws
          /\ domOp' = [op |-> "replaceWith", w |-> w, content |-> content,
                       old |-> wraps[w], node |-> r.node, threw |-> r.threw,
                       returned |-> r.ret, calls |-> r.calls,
                       treeBefore |-> tree, wrapsBefore |-> wraps]
    /\ UNCHANGED ctxVersion

NextDom ==
    \/ \E input \in DomInputs : DomCall(input)
    \/ \E w \in 1..Len(wraps) : \E content \in ReplaceContents :
          ReplaceWith(w, content)

\* ------------------------------------------------------------------------
\* DomContext.insert and append, prepend, before, after
\* ------------------------------------------------------------------------
\* How many insert, append, prepend, before and after calls are made.
MaxInserts == 1

Positions == {"beforebegin", "afterbegin", "beforeend", "afterend"}
InsertMethods == {"insert", "append", "prepend", "before", "after"}

\* The position append, prepend, after and before hand to insert.
PositionOf(method, where) ==
    CASE method = "append" -> "beforeend"
      [] method = "prepend" -> "afterbegin"
      [] method = "after" -> "afterend"
      [] method = "before" -> "beforebegin"
      [] OTHER -> where

\* The child list with node put next to target.
PlaceBeside(kids, target, where, node) ==
    IF where = "beforebegin" THEN Splice(kids, target, <<node, target>>)
    ELSE Splice(kids, target, <<target, node>>)

\* An insertion that puts the node last among the children, whatever the
\* position asked for.
InsertAdjacentElement_AtEnd(ns, target, where, node) ==
    LET inside == where \in {"afterbegin", "beforeend"}
        anchor == IF inside THEN target ELSE ParentOf(ns, target)
    IN IF anchor = NoNode THEN [ns |-> ns, threw |-> FALSE]
       ELSE IF node = anchor \/ IsAncestor(ns, node, anchor)
       THEN [ns |-> ns, threw |-> TRUE]
       ELSE IF node = target THEN [ns |-> ns, threw |-> FALSE]
       ELSE [ns |-> [Detach(ns, node) EXCEPT ![anchor].kids = Append(@, node)],
             threw |-> FALSE]

\* Element.insertAdjacentElement(where, node) on target: inside the
\* target as its first or last child, or beside it in its parent; nothing
\* happens beside a target without parent, and the host refuses a node
\* that contains the place it is to go to.
InsertAdjacentElement(ns, target, where, node) ==
    LET inside == where \in {"afterbegin", "beforeend"}
        anchor == IF inside THEN target ELSE ParentOf(ns, target)
    IN IF anchor = NoNode THEN [ns |-> ns, threw |-> FALSE]
       ELSE IF node = anchor \/ IsAncestor(ns, node, anchor)
       THEN [ns |-> ns, threw |-> TRUE]
       ELSE IF node = target THEN [ns |-> ns, threw |-> FALSE]
       ELSE LET ns1 == Detach(ns, node)
            IN [ns |-> [ns1 EXCEPT ![anchor].kids =
                          CASE where = "afterbegin" -> <<node>> \o @
                            [] where = "beforeend" -> Append(@, node)
                            [] OTHER -> PlaceBeside(@, target, where, node)],
                threw |-> FALSE]

\* The node an item of insert stands for: a string goes through dom, a
\* node is taken as it is, a wrapper gives its element.
ItemNode(ns, ws, item) ==
    IF item.kind = "string"
    THEN LET d == DomOf(ns, ws, item)
         IN [ns |-> d.ns, ws |-> d.ws, threw |-> d.threw,
             node |-> IF d.threw THEN NoNode ELSE ResolvedNode(d)]
    ELSE [ns |-> ns, ws |-> ws, threw |-> FALSE,
          node |-> IF item.kind = "node" THEN item.node
                   ELSE ws[item.wrapper]]

HostCall(where, node) == [where |-> where, node |-> node]
Handled(item, node) == [item |-> item, node |-> node]

\* A loop body that leaves the loop at an item without node.
InsertTurn_Break(st, w, where, item) ==
    IF st.threw \/ st.done THEN st
    ELSE LET r == ItemNode(st.ns, st.ws, item)
             st1 == [st EXCEPT !.ns = r.ns, !.ws = r.ws,
                               !.log = Append(@, Handled(item, r.node))]
         IN IF r.threw THEN [st1 EXCEPT !.threw = TRUE]
            ELSE IF r.node = NoNode THEN [st1 EXCEPT !.done = TRUE]
            ELSE LET h == InsertAdjacentElement(r.ns, r.ws[w], where, r.node)
                 IN [st1 EXCEPT !.ns = h.ns, !.threw = h.threw,
                                !.calls = Append(@, HostCall(where, r.node))]

\* The body of the loop of insert for one item: the item is resolved, an
\* item without node is passed over, and the host is called for any other.
\* Nothing more is done once an error has left the loop.
InsertTurn(st, w, where, item) ==
    IF st.threw THEN st
    ELSE LET r == ItemNode(st.ns, st.ws, item)
             st1 == [st EXCEPT !.ns = r.ns, !.ws = r.ws,
                               !.log = Append(@, Handled(item, r.node))]
         IN IF r.threw THEN [st1 EXCEPT !.threw = TRUE]
            ELSE IF r.node = NoNode THEN st1
            ELSE IF r.node = UndefinedNode \/ r.ws[w] = UndefinedNode
            THEN [st1 EXCEPT !.threw = TRUE,
                             !.calls = Append(@, HostCall(where, r.node))]
            ELSE LET h == InsertAdjacentElement(r.ns, r.ws[w], where, r.node)
                 IN [st1 EXCEPT !.ns = h.ns, !.threw = h.threw,
                                !.calls = Append(@, HostCall(where, r.node))]

\* for (const content of contents) ...
RECURSIVE InsertAll(_, _, _, _)
InsertAll(st, w, where, contents) ==
    IF contents = <<>> THEN st
    ELSE InsertAll(InsertTurn(st, w, where, Head(contents)), w, where,
                   Tail(contents))

\* insert(where, ...contents) of wrapper w
InsertOf(ns, ws, w, where, contents) ==
    LET st == InsertAll([ns |-> ns, ws |-> ws, log |-> <<>>, calls |-> <<>>,
                         threw |-> FALSE, done |-> FALSE], w, where, contents)
    IN st @@ [ret |-> IF st.threw THEN NullWrapper ELSE w]

\* The page of the dom calls, a detached div, and wrappers over the h3,
\* over the span and over the div.
InitInsert ==
    /\ tree = Instantiate(
                Instantiate(<<>>, <<T("html", 0), T("h3", 1), T("p", 1),
                                    T("span", 3), T("p", 1)>>),
                <<T("div", 0)>>)
    /\ wraps = <<2, 4, 6>>
    /\ ctxVersion \in {3, 4}
    /\ domOps = 0
    /\ domOp = [op |-> "none"]

\* The argument lists of the calls: markup, a selector with a match, a
\* selector without, nodes and wrappers.
ContentLists ==
    { <<StringInput(StrP), StringInput(SelH3), NodeInput(5)>>,
      <<StringInput(StrP), StringInput(SelEm), NodeInput(5)>>,
      <<StringInput(SelEm)>>,
      <<NodeInput(5), WrapperInput(1)>>,
      <<NodeInput(5), NodeInput(5)>>,
      <<StringInput(StrTwo), StringInput(StrComment), WrapperInput(3)>>,
      <<StringInput(StrP), NodeInput(3)>> }

\* w.insert(where, ...contents), w.append(...contents) and the like
Insert(w, method, where, contents) ==
    /\ domOps < MaxInserts
    /\ domOps' = domOps + 1
    /\ \E r \in {InsertOf(tree, wraps, w, PositionOf(method, where), contents)} :
          /\ tree' = r.ns
          /\ wraps' = r.ws
          /\ domOp' = [op |-> "insert", method |-> method, w |-> w,
                       where |-> PositionOf(method, where),
                       contents |-> contents, log |-> r.log,
                       calls |-> r.calls, threw |-> r.threw,
                       returned |-> r.ret, treeBefore |-> tree,
                       wrapsBefore |-> wraps]
    /\ UNCHANGED ctxVersion

NextInsert ==
    \E w \in 1..Len(wraps) : \E method \in InsertMethods :
    \E where \in Positions : \E contents \in ContentLists :
        /\ method # "insert" => where = "beforeend"
        /\ Insert(w, method, where, contents)

\* ------------------------------------------------------------------------
\* attr and the class methods of DomContext and DomCollection
\* ------------------------------------------------------------------------
\* How many attr, addClass, removeClass, toggleClass and hasClass calls
\* are made.
MaxAttrOps == 2

VARIABLES
    elems,     \* the elements: the attributes and the class list of each
    given,     \* what collection() was given: elements, and inputs without one
    members,   \* the collection: the element of each of its wrappers
    attrOps,   \* calls made so far
    attrOp     \* the last call: what it was given and what it did

attrVars == <<elems, given, members, attrOps, attrOp>>

\* The values attr is called with.
VUndefined == [kind |-> "undefined"]
VNull == [kind |-> "null"]
VString(str) == [kind |-> "string", str |-> str]
\* A callback: fn names what it computes; bound is the index it was
\* closed over, for a callback written as (old) => fn(old, bound).
NoIndex == 0 - 1
VFunction(fn, bound) == [kind |-> "function", fn |-> fn, bound |-> bound]

IndexText(i) == <<"i0", "i1", "i2", "i3">>[i + 1]

\* The index a callback works with: the one it was closed over, else the
\* one it is called with.
IndexSeen(cb, index) == IF cb.bound = NoIndex THEN index ELSE cb.bound

\* value(oldVal, index): what the callbacks of the model return.
Apply(cb, old, index) ==
    CASE cb.fn = "bang" -> IF old = Null THEN "new" ELSE old \o "!"
      [] cb.fn = "clear" -> Null
      [] cb.fn = "index" -> IndexText(IndexSeen(cb, index))

CallOf(cb, old, index) ==
    [fn |-> cb.fn, old |-> old, index |-> IndexSeen(cb, index)]

\* A string or null as an argument of attr.
AsValue(v) == IF v = Null THEN VNull ELSE VString(v)

\* Element.removeAttribute(name)
RemoveAttribute(ns, n, name) ==
    [ns EXCEPT ![n].attrs = SelectSeq(@, LAMBDA a : a.name # name)]

\* What a call returns.
RetThis == [kind |-> "this"]
RetValue(v) == [kind |-> "value", v |-> v]
RetList(l) == [kind |-> "list", l |-> l]
RetThrow == [kind |-> "TypeError"]

\* A callback form that sets what the callback returns, null included.
AttrByCallback_KeepsOnNull(ns, n, name, cb) ==
    LET oldVal == GetAttribute(ns, n, name)
        attr == Apply(cb, oldVal, NoIndex)
    IN [ns |-> IF attr = Null THEN ns ELSE SetAttribute(ns, n, name, attr),
        ret |-> RetThis, calls |-> <<CallOf(cb, oldVal, NoIndex)>>]

\* attr(name, value) with a function: value(oldVal) is called and its
\* result set, or the attribute removed when the result is null.
AttrByCallback(ns, n, name, cb) ==
    LET oldVal == GetAttribute(ns, n, name)
        attr == Apply(cb, oldVal, NoIndex)
    IN [ns |-> IF attr = Null THEN RemoveAttribute(ns, n, name)
               ELSE SetAttribute(ns, n, name, attr),
        ret |-> RetThis, calls |-> <<CallOf(cb, oldVal, NoIndex)>>]

\* DomContext.attr(name, value) of a wrapper over n.
Attr(ns, n, name, value) ==
    IF name = Undefined /\ value.kind = "undefined"
    THEN [ns |-> ns, ret |-> RetValue(AttrAll(ns, n)), calls |-> <<>>]
    ELSE IF name # Undefined /\ value.kind = "undefined"
    THEN [ns |-> ns, ret |-> RetValue(GetAttribute(ns, n, name)), calls |-> <<>>]
    ELSE IF name # Undefined /\ value.kind = "function"
    THEN AttrByCallback(ns, n, name, value)
    ELSE IF name # Undefined /\ value.kind = "null"
    THEN [ns |-> RemoveAttribute(ns, n, name), ret |-> RetThis, calls |-> <<>>]
    ELSE IF name # Undefined /\ value.kind = "string"
    THEN [ns |-> SetAttribute(ns, n, name, value.str), ret |-> RetThis,
          calls |-> <<>>]
    ELSE [ns |-> ns, ret |-> RetThrow, calls |-> <<>>]

\* this.map(($ele) => $ele.attr(name))
AttrMap(ns, ms, name) ==
    AsSeq([i \in 1..Len(ms) |-> Attr(ns, ms[i], name, VUndefined).ret.v])

\* A loop turn that hands every member the old value of the first member.
AttrEachTurn_FirstOld(st, ms, i, name, cb) ==
    LET oldVal == Attr(st.ns, ms[1], name, VUndefined).ret.v
        val == Apply(cb, oldVal, i - 1)
    IN [ns |-> Attr(st.ns, ms[i], name, AsValue(val)).ns,
        calls |-> Append(st.calls, CallOf(cb, oldVal, i - 1))]

\* One turn of the loop of DomCollection.attr(name, callback): member i
\* (index i - 1) is read, the callback called, and the result set.
AttrEachTurn(st, ms, i, name, cb) ==
    LET oldVal == Attr(st.ns, ms[i], name, VUndefined).ret.v
        val == Apply(cb, oldVal, i - 1)
    IN [ns |-> Attr(st.ns, ms[i], name, AsValue(val)).ns,
        calls |-> Append(st.calls, CallOf(cb, oldVal, i - 1))]

RECURSIVE AttrEach(_, _, _, _, _)
AttrEach(st, ms, i, name, cb) ==
    IF i > Len(ms) THEN st
    ELSE AttrEach(AttrEachTurn(st, ms, i, name, cb), ms, i + 1, name, cb)

\* for (const $ele of this) $ele.attr(name, value)
RECURSIVE AttrAllMembers(_, _, _, _)
AttrAllMembers(ns, ms, name, value) ==
    IF ms = <<>> THEN ns
    ELSE AttrAllMembers(Attr(ns, Head(ms), name, value).ns, Tail(ms), name, value)

\* DomCollection.attr(name, value)
CollectionAttr(ns, ms, name, value) ==
    IF name = Undefined /\ value.kind = "undefined"
    THEN [ns |-> ns, ret |-> RetList(AttrMap(ns, ms, Undefined)), calls |-> <<>>]
    ELSE IF name = Undefined
    THEN [ns |-> ns, ret |-> RetThis, calls |-> <<>>]
    ELSE IF value.kind = "undefined"
    THEN [ns |-> ns, ret |-> RetList(AttrMap(ns, ms, name)), calls |-> <<>>]
    ELSE IF value.kind = "function"
    THEN LET st == AttrEach([ns |-> ns, calls |-> <<>>], ms, 1, name, value)
         IN [ns |-> st.ns, ret |-> RetThis, calls |-> st.calls]
    ELSE [ns |-> AttrAllMembers(ns, ms, name, value), ret |-> RetThis,
          calls |-> <<>>]

\* Class names, character by character.
ClassA == <<"a">>
ClassB == <<"b">>
ClassC == <<"c">>
ClassAB == <<"a", " ", "b">>

\* classNames.flatMap that takes every argument for one class name.
Tokens_NoSplit(classNames) == classNames

\* classNames.flatMap((cls) => cls.split(" "))
RECURSIVE Tokens(_)
Tokens(classNames) ==
    IF classNames = <<>> THEN <<>>
    ELSE Split(Head(classNames), Space) \o Tokens(Tail(classNames))

\* DOMTokenList.contains / add / remove / toggle
Contains(cl, token) == InSeq(token, cl)

RECURSIVE ClassListAdd(_, _)
ClassListAdd(cl, tokens) ==
    IF tokens = <<>> THEN cl
    ELSE ClassListAdd(IF Contains(cl, Head(tokens)) THEN cl
                      ELSE Append(cl, Head(tokens)), Tail(tokens))

RECURSIVE ClassListRemove(_, _)
ClassListRemove(cl, tokens) ==
    IF tokens = <<>> THEN cl
    ELSE ClassListRemove(Without(cl, Head(tokens)), Tail(tokens))

ClassListToggle(cl, token) ==
    IF Contains(cl, token) THEN Without(cl, token) ELSE Append(cl, token)

\* for (const className of classes) classList.toggle(className)
RECURSIVE ToggleEach(_, _)
ToggleEach(cl, tokens) ==
    IF tokens = <<>> THEN cl
    ELSE ToggleEach(ClassListToggle(cl, Head(tokens)), Tail(tokens))

\* for (const className of classes) if (!contains) return false
RECURSIVE ContainsEach(_, _)
ContainsEach(cl, tokens) ==
    IF tokens = <<>> THEN TRUE
    ELSE IF ~Contains(cl, Head(tokens)) THEN FALSE
    ELSE ContainsEach(cl, Tail(tokens))

ClassOps == {"addClass", "removeClass", "toggleClass", "hasClass"}

\* DomContext.addClass / removeClass / toggleClass / hasClass of a
\* wrapper over n.
ClassCall(ns, n, op, classNames) ==
    LET classes == Tokens(classNames)
    IN CASE op = "addClass" ->
              [ns |-> [ns EXCEPT ![n].classes = ClassListAdd(@, classes)],
               ret |-> RetThis]
         [] op = "removeClass" ->
              [ns |-> [ns EXCEPT ![n].classes = ClassListRemove(@, classes)],
               ret |-> RetThis]
         [] op = "toggleClass" ->
              [ns |-> [ns EXCEPT ![n].classes = ToggleEach(@, classes)],
               ret |-> RetThis]
         [] op = "hasClass" ->
              [ns |-> ns, ret |-> RetValue(ContainsEach(ns[n].classes, classes))]

\* for (const $ele of this) $ele.addClass(...classNames), and the like
RECURSIVE ClassAllMembers(_, _, _, _)
ClassAllMembers(ns, ms, op, classNames) ==
    IF ms = <<>> THEN ns
    ELSE ClassAllMembers(ClassCall(ns, Head(ms), op, classNames).ns,
                         Tail(ms), op, classNames)

\* for (const $ele of this) if (!$ele.hasClass(...)) return false
RECURSIVE HasClassAllMembers(_, _, _)
HasClassAllMembers(ns, ms, classNames) ==
    IF ms = <<>> THEN TRUE
    ELSE IF ~ClassCall(ns, Head(ms), "hasClass", classNames).ret.v THEN FALSE
    ELSE HasClassAllMembers(ns, Tail(ms), classNames)

\* DomCollection.addClass / removeClass / toggleClass / hasClass
CollectionClassCall(ns, ms, op, classNames) ==
    IF op = "hasClass"
    THEN [ns |-> ns, ret |-> RetValue(HasClassAllMembers(ns, ms, classNames))]
    ELSE [ns |-> ClassAllMembers(ns, ms, op, classNames), ret |-> RetThis]

Element(attrs, classes) == [attrs |-> attrs, classes |-> classes]

\* An input of collection() for which dom() has no wrapper.
NoElement == 0

\* for (const item of input): the wrapper of each item is pushed, and an
\* item dom() has no wrapper for is passed over.
RECURSIVE Collect(_, _)
Collect(items, input) ==
    IF input = <<>> THEN items
    ELSE IF Head(input) = NoElement THEN Collect(items, Tail(input))
    ELSE Collect(Append(items, Head(input)), Tail(input))

\* collection(...input)
CollectionOf(input) == Collect(<<>>, input)

\* Two elements, and a collection: of both, of both with the second twice
\* and an input without an element between them, or of none.
InitAttr ==
    /\ elems = <<Element(<<At("id", "x"), At("title", "")>>, <<ClassA>>),
                 Element(<<At("title", "t")>>, <<ClassC, ClassB>>)>>
    /\ given \in {<<1, 2>>, <<2, NoElement, 1, 2>>, <<>>}
    /\ members = CollectionOf(given)
    /\ attrOps = 0
    /\ attrOp = [op |-> "none"]

AttrIdle ==
    /\ elems = <<>>
    /\ given = <<>>
    /\ members = <<>>
    /\ attrOps = 0
    /\ attrOp = [op |-> "none"]

AttrNames == {"id", "title", "lang"}
WrapperValues ==
    {VUndefined, VNull, VString("v"), VFunction("bang", NoIndex),
     VFunction("clear", NoIndex)}
CollectionValues == WrapperValues \cup {VFunction("index", NoIndex)}
ClassArgs == {<<ClassAB>>, <<ClassA, ClassB>>, <<ClassB, ClassB>>, <<ClassC>>}

\* wrapper.attr(name, value); name may be left out only with the value.
WrapperAttrCall(n, name, value) ==
    /\ attrOps < MaxAttrOps
    /\ name = Undefined => value.kind = "undefined"
    /\ attrOps' = attrOps + 1
    /\ \E r \in {Attr(elems, n, name, value)} :
          /\ elems' = r.ns
          /\ attrOp' = [op |-> "attr", on |-> "wrapper", n |-> n,
                        name |-> name, value |-> value, ret |-> r.ret,
                        calls |-> r.calls, before |-> elems]
    /\ UNCHANGED <<given, members>>

\* collection.attr(name, value)
CollectionAttrCall(name, value) ==
    /\ attrOps < MaxAttrOps
    /\ name = Undefined => value.kind = "undefined"
    /\ attrOps' = attrOps + 1
    /\ \E r \in {CollectionAttr(elems, members, name, value)} :
          /\ elems' = r.ns
          /\ attrOp' = [op |-> "attr", on |-> "collection", n |-> 0,
                        name |-> name, value |-> value, ret |-> r.ret,
                        calls |-> r.calls, before |-> elems]
    /\ UNCHANGED <<given, members>>

\* wrapper.addClass(...classNames), and the like
WrapperClassCall(n, op, classNames) ==
    /\ attrOps < MaxAttrOps
    /\ attrOps' = attrOps + 1
    /\ \E r \in {ClassCall(elems, n, op, classNames)} :
          /\ elems' = r.ns
          /\ attrOp' = [op |-> op, on |-> "wrapper", n |-> n,
                        classNames |-> classNames, ret |-> r.ret,
                        before |-> elems]
    /\ UNCHANGED <<given, members>>

\* collection.addClass(...classNames), and the like
CollectionClassOp(op, classNames) ==
    /\ attrOps < MaxAttrOps
    /\ attrOps' = attrOps + 1
    /\ \E r \in {CollectionClassCall(elems, members, op, classNames)} :
          /\ elems' = r.ns
          /\ attrOp' = [op |-> op, on |-> "collection", n |-> 0,
                        classNames |-> classNames, ret |-> r.ret,
                        before |-> elems]
    /\ UNCHANGED <<given, members>>

NextAttr ==
    \/ \E n \in 1..Len(elems) : \E name \in AttrNames \cup {Undefined} :
       \E value \in WrapperValues : WrapperAttrCall(n, name, value)
    \/ \E name \in AttrNames \cup {Undefined} : \E value \in CollectionValues :
          CollectionAttrCall(name, value)
    \/ \E n \in 1..Len(elems) : \E op \in ClassOps : \E cn \in ClassArgs :
          WrapperClassCall(n, op, cn)
    \/ \E op \in ClassOps : \E cn \in ClassArgs : CollectionClassOp(op, cn)

\* ------------------------------------------------------------------------
\* The html tagged template
\* ------------------------------------------------------------------------
\* How many html calls are made.
MaxHtmlCalls == 1

VARIABLES
    hTree,     \* the nodes: tag, child elements and attributes of each
    hLs,       \* the event listeners of each node
    hWalker,   \* what the TreeWalker of the host does on a detached node
    hCalls,    \* html calls made so far
    hCall,     \* the last html call: what it was given and what came of it
    hClick     \* the last event dispatched after it

htmlVars == <<hTree, hLs, hWalker, hCalls, hCall, hClick>>

\* Attribute names and event types, character by character.
On == <<"o", "n">>
Click == <<"c", "l", "i", "c", "k">>
OnClick == On \o Click
OnClickCamel == <<"o", "n", "C", "l", "i", "c", "k">>
Title == <<"t", "i", "t", "l", "e">>
DataOn == <<"d", "a", "t", "a", "-", "o", "n">>

\* String.prototype.startsWith / slice / toLowerCase
StartsWith(str, prefix) ==
    /\ Len(str) >= Len(prefix)
    /\ SubSeq(str, 1, Len(prefix)) = prefix

Slice(str, from) == SubSeq(str, from + 1, Len(str))

LowerChar(c) == IF c = "C" THEN "c" ELSE c

LowerCase(str) == AsSeq([i \in 1..Len(str) |-> LowerChar(str[i])])

\* The interpolated values: a function, an element, or anything else.
FnValue(fn) == [kind |-> "function", fn |-> fn, n |-> NoNode]
EleValue(n) == [kind |-> "element", fn |-> "", n |-> n]
TextValue == [kind |-> "other", fn |-> "", n |-> NoNode]

\* String(value) of a value that is neither function nor element.
StringOf(value) == "s"

\* The template literal as the parser will see it: the elements written in
\* it in document order below the template content (position 1), an
\* attribute value or a child being either literal or the i-th
\* interpolation.
NoHole == 0 - 1
Hole(i) == [hole |-> i, text |-> ""]
HT(tag, parent, attrs) ==
    [tag |-> tag, parent |-> parent, attrs |-> attrs, hole |-> NoHole]
HoleNode(i, parent) ==
    [tag |-> "", parent |-> parent, attrs |-> <<>>, hole |-> i]
Content == HT("#fragment", 0, <<>>)

\* html`<button onclick=${0}>`
TplButton == <<Content, HT("button", 1, <<At(OnClick, Hole(0))>>)>>
\* html`<button onClick=${0} title=${1}>`
TplCamel ==
    <<Content, HT("button", 1, <<At(OnClickCamel, Hole(0)), At(Title, Hole(1))>>)>>
\* html`<button data-on=${0}>`
TplData == <<Content, HT("button", 1, <<At(DataOn, Hole(0))>>)>>
\* html`<div>${0}<button onclick=${1}></button></div>`
TplNested ==
    <<Content, HT("div", 1, <<>>), HoleNode(0, 2),
      HT("button", 2, <<At(OnClick, Hole(1))>>)>>
\* html`${0}`
TplHole == <<Content, HoleNode(0, 1)>>

Templates == {TplButton, TplCamel, TplData, TplNested, TplHole}

\* values.length
Arity(tmpl) == IF tmpl \in {TplCamel, TplNested} THEN 2 ELSE 1

\* `__FN_PLACEHOLDER__${i}__` and `ELE_PLACEHOLDER__${i}`, the latter as
\* the parser stores the tag name.
FnPlaceholder(i) == <<"__FN_PLACEHOLDER__0__", "__FN_PLACEHOLDER__1__">>[i + 1]
ElePlaceholder(i) == <<"ele_placeholder__0", "ele_placeholder__1">>[i + 1]

\* /__FN_PLACEHOLDER__(\d+)__/g.exec(originalValue): the index, if any.
FnMatch(text) ==
    IF \E i \in 0..1 : text = FnPlaceholder(i)
    THEN CHOOSE i \in 0..1 : text = FnPlaceholder(i)
    ELSE NoHole

\* /ELE_PLACEHOLDER__(\d+)/g.exec(node.tagName): the index, if any.
TagMatch(tag) ==
    IF \E i \in 0..1 : tag = ElePlaceholder(i)
    THEN CHOOSE i \in 0..1 : tag = ElePlaceholder(i)
    ELSE NoHole

\* strings.reduce: what stands in the merged string for interpolation i.
Merged(values, i) ==
    IF values[i + 1].kind = "function" THEN FnPlaceholder(i)
    ELSE StringOf(values[i + 1])

\* The attributes the parser makes: names lower-cased, an interpolated
\* value as merged.
ParsedAttrs(attrs, values) ==
    AsSeq([k \in 1..Len(attrs) |->
        At(LowerCase(attrs[k].name),
           IF attrs[k].value.hole = NoHole THEN attrs[k].value.text
           ELSE Merged(values, attrs[k].value.hole))])

\* The nodes the parser makes of the merged string: an element
\* interpolated as a child is a placeholder element, any other
\* interpolated child is text.
Parsed(tmpl, values) ==
    AsSeq([j \in 1..Len(tmpl) |->
        IF tmpl[j].hole = NoHole
        THEN TA(tmpl[j].tag, tmpl[j].parent, ParsedAttrs(tmpl[j].attrs, values))
        ELSE IF values[tmpl[j].hole + 1].kind = "element"
        THEN T(ElePlaceholder(tmpl[j].hole), tmpl[j].parent)
        ELSE T("#text", tmpl[j].parent)])

\* Text is no element: it is in no list of child elements.
ElementsOnly(ns) ==
    AsSeq([n \in 1..Len(ns) |->
        [ns[n] EXCEPT !.kids = SelectSeq(@, LAMBDA k : ns[k].tag # "#text")]])

\* template.innerHTML = html.trim()
TemplateContent(ns, tmpl, values) ==
    ElementsOnly(Instantiate(ns, Parsed(tmpl, values)))

\* Node.nextSibling among the elements
NextSibling(ns, n) ==
    LET p == ParentOf(ns, n)
    IN IF p = NoNode THEN NoNode
       ELSE LET i == IndexOf(ns[p].kids, n)
            IN IF i < Len(ns[p].kids) THEN ns[p].kids[i + 1] ELSE NoNode

\* TreeWalker.nextNode, the way up: the next sibling of the node or of
\* its nearest ancestor that has one, below the root. From a node that is
\* no longer below the root the hosts differ: the walk ends, or the node
\* itself is the result again.
RECURSIVE Following(_, _, _, _, _)
Following(ns, root, node, temporary, walker) ==
    IF temporary = NoNode
    THEN IF walker = "same" THEN node ELSE NoNode
    ELSE IF temporary = root THEN NoNode
    ELSE IF NextSibling(ns, temporary) # NoNode THEN NextSibling(ns, temporary)
    ELSE Following(ns, root, node, ParentOf(ns, temporary), walker)

\* walker.nextNode() from currentNode, every element being shown
NextNode(ns, root, current, walker) ==
    IF ns[current].kids # <<>> THEN Head(ns[current].kids)
    ELSE Following(ns, root, current, current, walker)

\* The attribute loop body with the listener added and the attribute kept.
ApplyAttr_KeepsAttribute(st, node, attr, values) ==
    LET i == FnMatch(attr.value)
    IN IF i # NoHole /\ StartsWith(attr.name, On)
          /\ values[i + 1].kind = "function"
       THEN [st EXCEPT !.ls[node] =
                AddEventListener(@, LowerCase(Slice(attr.name, 2)),
                                 values[i + 1].fn, FALSE)]
       ELSE st

\* The attribute loop body: a value that is the placeholder of a function,
\* under a name that starts with "on", becomes a listener and the
\* attribute is removed.
ApplyAttr(st, node, attr, values) ==
    LET i == FnMatch(attr.value)
    IN IF i # NoHole /\ StartsWith(attr.name, On)
          /\ values[i + 1].kind = "function"
       THEN [st EXCEPT !.ls[node] =
                AddEventListener(@, LowerCase(Slice(attr.name, 2)),
                                 values[i + 1].fn, FALSE),
                       !.ns = RemoveAttribute(@, node, attr.name)]
       ELSE st

\* for (const attr of Array.from(node.attributes))
RECURSIVE ApplyAttrs(_, _, _, _)
ApplyAttrs(st, node, attrs, values) ==
    IF attrs = <<>> THEN st
    ELSE ApplyAttrs(ApplyAttr(st, node, Head(attrs), values), node,
                    Tail(attrs), values)

\* while (walker.nextNode()): a placeholder element is replaced by its
\* element, any other element has its attributes looked through. When
\* nextNode yields the replaced placeholder once more, nothing changes
\* any more and the loop has no end.
RECURSIVE HtmlWalk(_, _, _, _, _)
HtmlWalk(st, root, current, values, walker) ==
    LET node == NextNode(st.ns, root, current, walker)
    IN IF node = NoNode THEN st
       ELSE IF TagMatch(st.ns[node].tag) # NoHole
       THEN IF node = current THEN [st EXCEPT !.hung = TRUE]
            ELSE HtmlWalk(
                    [st EXCEPT !.ns = HostReplaceWith(@, node,
                                   values[TagMatch(st.ns[node].tag) + 1].n)],
                    root, node, values, walker)
       ELSE HtmlWalk(ApplyAttrs(st, node, st.ns[node].attrs, values),
                     root, node, values, walker)

\* template.content.firstElementChild
FirstElementChild(ns, n) ==
    IF ns[n].kids = <<>> THEN NoNode ELSE Head(ns[n].kids)

\* html(strings, ...values)
HtmlOf(ns, ls, tmpl, values, walker) ==
    LET root == Len(ns) + 1
        ns1 == TemplateContent(ns, tmpl, values)
        ls1 == ls \o [n \in 1..(Len(ns1) - Len(ns)) |-> <<>>]
        st == HtmlWalk([ns |-> ns1, ls |-> ls1, hung |-> FALSE],
                       root, root, values, walker)
        first == FirstElementChild(st.ns, root)
    IN [ns |-> st.ns, ls |-> st.ls, hung |-> st.hung,
        threw |-> ~st.hung /\ first = NoNode,
        ret |-> IF st.hung THEN NoNode ELSE first]

\* An element made before the calls, with a child, and no call yet.
InitHtml ==
    /\ hTree = Instantiate(<<>>, <<T("span", 0), T("em", 1)>>)
    /\ hLs = <<<<>>, <<>>>>
    /\ hWalker \in {"null", "same"}
    /\ hCalls = 0
    /\ hCall = [op |-> "none", hung |-> FALSE]
    /\ hClick = [op |-> "none"]

HtmlIdle ==
    /\ hTree = <<>>
    /\ hLs = <<>>
    /\ hWalker = "null"
    /\ hCalls = 0
    /\ hCall = [op |-> "none", hung |-> FALSE]
    /\ hClick = [op |-> "none"]

HtmlValues == {FnValue("f"), FnValue("g"), EleValue(1), TextValue}

\* The html call has come to an end, or none was made.
HtmlDone == ~hCall.hung

\* html`...` with the given values
HtmlCall(tmpl, values) ==
    /\ HtmlDone
    /\ hCalls < MaxHtmlCalls
    /\ hCalls' = hCalls + 1
    /\ \E r \in {HtmlOf(hTree, hLs, tmpl, values, hWalker)} :
          /\ hTree' = r.ns
          /\ hLs' = r.ls
          /\ hCall' = [op |-> "html", tmpl |-> tmpl, values |-> values,
                       ret |-> r.ret, threw |-> r.threw, hung |-> r.hung,
                       root |-> Len(hTree) + 1]
    /\ hClick' = [op |-> "none"]
    /\ UNCHANGED hWalker

\* The host dispatches an event at an element: its listeners of the type
\* run.
HtmlDispatch(n, type) ==
    /\ HtmlDone
    /\ hCall.op = "html"
    /\ hClick' = [op |-> "dispatch", target |-> n, type |-> type,
                  invoked |-> Invoked(hLs[n], type)]
    /\ UNCHANGED <<hTree, hLs, hWalker, hCalls, hCall>>

NextHtml ==
    \/ \E tmpl \in Templates : \E values \in [1..Arity(tmpl) -> HtmlValues] :
          HtmlCall(tmpl, AsSeq(values))
    \/ \E n \in 1..Len(hTree) : \E type \in {Click, Title} : HtmlDispatch(n, type)

\* ------------------------------------------------------------------------
\* DomElement instances: the dispatch of a signal, callback by callback
\* ------------------------------------------------------------------------
\* How many registrations the instances' own code makes, how many signals
\* the host delivers, and how long a callback list may grow.
MaxRegistrations == 2
MaxSignals == 2
MaxList == 4

VARIABLES
    lists,       \* of each instance: its callback list for each signal
    run,         \* the dispatch that is running or was last: whose, which, i
    fired,       \* the callbacks the dispatch has invoked, in order
    signals,     \* how many signals the host has delivered
    registered   \* how many registrations were made outside dispatches

instVars == <<lists, run, fired, signals, registered>>

Instances == {1, 2}
\* _mountEffects and _unmountEffects; _adoptEffects and the lists of
\* _changeEffects are walked by the same loop.
Kinds == {"mount", "unmount"}

\* The callbacks of the model: f does nothing to the lists; once registers
\* late for the signal it is invoked by unless late is registered; loop
\* registers itself again every time it is invoked.
InstCallbacks == {"f", "once", "loop"}

NoRun == [on |-> FALSE, ended |-> FALSE, inst |-> 1, kind |-> "mount",
          i |-> 0, atStart |-> 0]

InitInst ==
    /\ lists = [x \in Instances |-> [k \in Kinds |-> <<>>]]
    /\ run = NoRun
    /\ fired = <<>>
    /\ signals = 0
    /\ registered = 0

InstIdle ==
    /\ lists = <<>>
    /\ run = NoRun
    /\ fired = <<>>
    /\ signals = 0
    /\ registered = 0

\* One list for all instances.
ListOf_Shared(ls, x, kind) == ls[1][kind]

\* this._mountEffects and the like: a field of the instance
ListOf(ls, x, kind) == ls[x][kind]

\* The end of the loop taken when the loop starts.
Bound_AtStart(list, atStart) == atStart

\* i < list.length, looked at before every turn
Bound(list, atStart) == Len(list)

\* What the callback registers when it is invoked, for the signal and
\* on the instance it is invoked by.
Registers(cb, list) ==
    IF cb = "loop" THEN <<"loop">>
    ELSE IF cb = "once" /\ ~InSeq("late", list) THEN <<"late">>
    ELSE <<>>

\* mountEffect(cb), unmountEffect(cb) in the instance's own code, outside
\* a dispatch
Register(x, kind, cb) ==
    /\ ~run.on
    /\ registered < MaxRegistrations
    /\ registered' = registered + 1
    /\ lists' = [lists EXCEPT ![x][kind] = Push(@, cb)]
    /\ UNCHANGED <<run, fired, signals>>

\* The host calls connectedCallback or disconnectedCallback of an
\* instance: let i = 0
Signal(x, kind) ==
    /\ ~run.on
    /\ signals < MaxSignals
    /\ signals' = signals + 1
    /\ run' = [on |-> TRUE, ended |-> FALSE, inst |-> x, kind |-> kind,
               i |-> 1, atStart |-> Len(ListOf(lists, x, kind))]
    /\ fired' = <<>>
    /\ UNCHANGED <<lists, registered>>

\* One turn of the loop: list[i]() and i++
Turn ==
    /\ run.on
    /\ LET list == ListOf(lists, run.inst, run.kind)
       IN /\ run.i <= Bound(list, run.atStart)
          /\ Len(list) + Len(Registers(list[run.i], list)) <= MaxList
          /\ fired' = Append(fired, list[run.i])
          /\ lists' = [lists EXCEPT ![run.inst][run.kind] =
                          @ \o Registers(list[run.i], list)]
          /\ run' = [run EXCEPT !.i = @ + 1]
    /\ UNCHANGED <<signals, registered>>

\* i < list.length is false: the lifecycle callback returns
Return ==
    /\ run.on
    /\ run.i > Bound(ListOf(lists, run.inst, run.kind), run.atStart)
    /\ run' = [run EXCEPT !.on = FALSE, !.ended = TRUE]
    /\ UNCHANGED <<lists, fired, signals, registered>>

NextInst ==
    \/ \E x \in Instances : \E kind \in Kinds : \E cb \in InstCallbacks :
          Register(x, kind, cb)
    \/ \E x \in Instances : \E kind \in Kinds : Signal(x, kind)
    \/ Turn
    \/ Return

\* The resolution engine at rest, for the specifications of the other parts.
UseIdle ==
    /\ nodes = <<>>
    /\ ele = NoNode
    /\ components = <<>>
    /\ pc = "idle"
    /\ changed = FALSE
    /\ ci = 0
    /\ prebuild = <<>>
    /\ idx = 0
    /\ ret = "none"
    /\ useCalls = 0
    /\ passes = 0
    /\ createLog = <<>>
    /\ nodesAtCall = <<>>
    /\ eleAtCall = NoNode

vars == <<useVars, elemVars, lifeVars, evVars, domVars, attrVars, htmlVars, instVars>>

Init == InitUse /\ InitElem /\ LifeIdle /\ EvIdle /\ DomIdle /\ AttrIdle /\ HtmlIdle /\ InstIdle

Next ==
    \/ UseCall
    \/ UseScan
    \/ UseItem
    \/ UseNextComponent
    \/ UseRepeat
    \/ UseReturn

\* A step of use leaves the other parts alone.
UseStep == Next /\ UNCHANGED <<elemVars, lifeVars, evVars, domVars, attrVars, htmlVars, instVars>>

Spec == Init /\ [][UseStep]_vars

ElemInit == UseIdle /\ InitElemAny /\ LifeIdle /\ EvIdle /\ DomIdle /\ AttrIdle /\ HtmlIdle /\ InstIdle

SpecElem ==
    /\ ElemInit
    /\ [][NextElem /\ UNCHANGED <<useVars, lifeVars, evVars, domVars, attrVars, htmlVars, instVars>>]_vars

LifeInit == UseIdle /\ InitElem /\ InitLife /\ EvIdle /\ DomIdle /\ AttrIdle /\ HtmlIdle /\ InstIdle

SpecLife ==
    /\ LifeInit
    /\ [][NextLife /\ UNCHANGED <<useVars, elemVars, evVars, domVars, attrVars, htmlVars, instVars>>]_vars

EvInit == UseIdle /\ InitElem /\ LifeIdle /\ InitEv /\ DomIdle /\ AttrIdle /\ HtmlIdle /\ InstIdle

SpecEv ==
    /\ EvInit
    /\ [][NextEv /\ UNCHANGED <<useVars, elemVars, lifeVars, domVars, attrVars, htmlVars, instVars>>]_vars

PageInit == UseIdle /\ InitElem /\ LifeIdle /\ EvIdle /\ InitDom /\ AttrIdle /\ HtmlIdle /\ InstIdle

SpecDom ==
    /\ PageInit
    /\ [][NextDom /\ UNCHANGED <<useVars, elemVars, lifeVars, evVars, attrVars, htmlVars, instVars>>]_vars

AttrInit ==
    UseIdle /\ InitElem /\ LifeIdle /\ EvIdle /\ DomIdle /\ InitAttr /\ HtmlIdle /\ InstIdle

SpecAttr ==
    /\ AttrInit
    /\ [][NextAttr /\ UNCHANGED <<useVars, elemVars, lifeVars, evVars, domVars, htmlVars, instVars>>]_vars

ErrInit ==
    /\ InitUseFaulty /\ InitElem /\ LifeIdle /\ EvIdle /\ DomIdle /\ AttrIdle
    /\ HtmlIdle /\ InstIdle

NextErr == Next \/ UseThrowNotComponent \/ UseThrowCreate

SpecErr ==
    /\ ErrInit
    /\ [][NextErr /\ UNCHANGED <<elemVars, lifeVars, evVars, domVars, attrVars, htmlVars, instVars>>]_vars

HtmlInit ==
    UseIdle /\ InitElem /\ LifeIdle /\ EvIdle /\ DomIdle /\ AttrIdle /\ InitHtml
    /\ InstIdle

SpecHtml ==
    /\ HtmlInit
    /\ [][NextHtml /\ UNCHANGED <<useVars, elemVars, lifeVars, evVars, domVars, attrVars, instVars>>]_vars

InsertInit ==
    /\ UseIdle /\ InitElem /\ LifeIdle /\ EvIdle /\ InitInsert /\ AttrIdle
    /\ HtmlIdle /\ InstIdle

InsertStep ==
    NextInsert /\ UNCHANGED <<useVars, elemVars, lifeVars, evVars, attrVars, htmlVars, instVars>>

SpecInsert == InsertInit /\ [][InsertStep]_vars

InstInit ==
    /\ UseIdle /\ InitElem /\ LifeIdle /\ EvIdle /\ DomIdle /\ AttrIdle
    /\ HtmlIdle /\ InitInst

InstStep ==
    NextInst /\ UNCHANGED <<useVars, elemVars, lifeVars, evVars, domVars, attrVars, htmlVars>>

SpecInst == InstInit /\ [][InstStep]_vars

\* The loop of a lifecycle callback goes on while it has a turn to make.
SpecInstLive == SpecInst /\ WF_vars(InstStep)

\* ------------------------------------------------------------------------
\* Properties of the resolution engine
\* ------------------------------------------------------------------------
\* use has returned from a call.
Returned == pc = "idle" /\ ret = ThisWrapper

SubtreeSet(ns, n) == {Preorder(ns, n)[i] : i \in 1..Len(Preorder(ns, n))}

\* Some element of the subtree of e, e included, is a placeholder of one
\* of the definitions.
HasPlaceholder(ns, e, comps) ==
    \E d \in 1..Len(comps) : \E n \in SubtreeSet(ns, e) :
        ns[n].tag = ToLowerCase(comps[d].selector)

LogOfCall(c) == SelectSeq(createLog, LAMBDA e : e.call = c)

\* Entry b resolved a placeholder that entry a's template brought in, below
\* the root of a's instance.
FromTemplateOf(a, b) ==
    /\ b.placeholder \in a.first..a.last
    /\ b.placeholder # a.root

\* C1: once use has returned, no element of the wrapper's subtree, the
\* wrapper's element included, matches the selector of a supplied
\* definition; and the instance rendered for a placeholder that came out of
\* another definition's template lies inside that definition's instance.
C1_NoPlaceholderLeft ==
    Returned =>
        /\ ~HasPlaceholder(nodes, ele, components)
        /\ \A i, j \in 1..Len(createLog) :
              FromTemplateOf(createLog[i], createLog[j]) =>
                  /\ createLog[j].root \in SubtreeSet(nodes, createLog[i].root)
                  /\ createLog[j].placeholder
                        \notin SubtreeSet(nodes, createLog[i].root)

\* C1 witness: use returned after resolving an A-Box placeholder and the
\* b-box placeholder of its template.
C1_Witness ==
    /\ Returned
    /\ \E i, j \in 1..Len(createLog) :
          /\ FromTemplateOf(createLog[i], createLog[j])
          /\ components[createLog[i].def] = ABox
          /\ components[createLog[j].def] = BBox
          /\ createLog[i].root \in SubtreeSet(nodes, ele)

\* C2: a call of use on a tree without any placeholder of the supplied
\* definitions calls create never, leaves the store and the wrapper's
\* element as they were and makes one pass; so a second call of use with
\* the same definitions leaves what the first one left.
C2_NoOpWithoutMatch ==
    /\ (useCalls >= 1 /\ ~HasPlaceholder(nodesAtCall, eleAtCall, components)) =>
          /\ nodes = nodesAtCall
          /\ ele = eleAtCall
          /\ passes = 1
          /\ LogOfCall(useCalls) = <<>>
    /\ useCalls >= 2 =>
          /\ nodes = nodesAtCall
          /\ ele = eleAtCall
          /\ passes = 1
          /\ LogOfCall(useCalls) = <<>>

\* C2 witness: the second call returned after a first one that resolved
\* placeholders.
C2_Witness ==
    /\ Returned
    /\ useCalls = 2
    /\ LogOfCall(1) # <<>>
    /\ ~HasPlaceholder(nodesAtCall, eleAtCall, components)

\* Definition i's template holds a placeholder of definition j.
Produces(comps, i, j) ==
    \E k \in 1..Len(comps[i].template) :
        comps[i].template[k].tag = ToLowerCase(comps[j].selector)

\* The definitions reached from the set S in at most k steps of Produces.
RECURSIVE ReachedFrom(_, _, _)
ReachedFrom(comps, S, k) ==
    IF k = 0 THEN S
    ELSE LET step == {j \in 1..Len(comps) : \E i \in S : Produces(comps, i, j)}
         IN ReachedFrom(comps, S \cup step, k - 1)

\* No definition's output holds, directly or through the templates of the
\* other definitions, a placeholder of its own.
NoSelfReference(comps) ==
    \A i \in 1..Len(comps) :
        i \notin ReachedFrom(comps,
                    {j \in 1..Len(comps) : Produces(comps, i, j)}, Len(comps))

\* The process running use keeps running: no step of it waits on anything.
SpecLive == Spec /\ WF_vars(UseStep)

\* C3: when no definition's output reintroduces its own placeholder, every
\* call of use comes to a pass without a match and returns.
C3_Terminates ==
    (pc # "idle" /\ NoSelfReference(components)) ~> Returned

\* C3 witness: a call with definitions that feed each other (A-Box renders
\* a b-box placeholder) took several passes and returned.
C3_Witness ==
    /\ Returned
    /\ NoSelfReference(components)
    /\ passes >= 3
    /\ \E i, j \in 1..Len(components) : Produces(components, i, j)

RootEntries == SelectSeq(createLog, LAMBDA e : e.wasRoot)

MatchesSome(ns, n, comps) ==
    \E d \in 1..Len(comps) : ns[n].tag = ToLowerCase(comps[d].selector)

\* C4: whenever use has resolved the wrapper's own element, the wrapper
\* refers to the instance rendered last for it, not to a placeholder it
\* stood for before; when the call began on a placeholder, it ends on a
\* rendered instance; and use returns the wrapper it was called on.
C4_RootReseated ==
    /\ RootEntries # <<>> =>
          /\ ele = RootEntries[Len(RootEntries)].root
          /\ \A i \in 1..Len(RootEntries) : ele # RootEntries[i].placeholder
          /\ \A i \in 2..Len(RootEntries) :
                RootEntries[i].placeholder = RootEntries[i - 1].root
    /\ (Returned /\ MatchesSome(nodesAtCall, eleAtCall, components)) =>
          /\ ele # eleAtCall
          /\ \E i \in 1..Len(createLog) :
                createLog[i].call = useCalls /\ createLog[i].root = ele
    /\ (pc = "idle" /\ useCalls >= 1) => ret = ThisWrapper

\* C4 witness: use returned after replacing the wrapper's element in two
\* different passes.
C4_Witness ==
    /\ Returned
    /\ \E i, j \in 1..Len(RootEntries) :
          RootEntries[i].pass < RootEntries[j].pass

AttrNameSet(as) == {as[i].name : i \in 1..Len(as)}

\* C5: the options of every create call are the attribute map of the
\* placeholder as it was when resolved: the same names, each with the
\* attribute's own string; and the renderer is handed these options (the
\* demo renderer copies options.apple to data-apple of the instance).
C5_OptionsAreAttributes ==
    \A i \in 1..Len(createLog) :
        LET e == createLog[i]
        IN /\ DOMAIN e.options = AttrNameSet(e.attrs)
           /\ \A k \in 1..Len(e.attrs) :
                 e.options[e.attrs[k].name] = e.attrs[k].value
           /\ (components[e.def].renderer = "dataApple"
                  /\ "apple" \in AttrNameSet(e.attrs)) =>
                 \E k \in 1..Len(e.attrs) :
                    /\ e.attrs[k].name = "apple"
                    /\ e.instance[1].attrs
                          = <<At("data-apple", e.attrs[k].value)>>

\* C5 witness: a placeholder with two attributes, one of them empty, was
\* resolved by the definition whose renderer reads options.apple.
C5_Witness ==
    \E i \in 1..Len(createLog) :
        /\ Len(createLog[i].attrs) = 2
        /\ \E k \in 1..2 : createLog[i].attrs[k].value = ""
        /\ components[createLog[i].def].renderer = "dataApple"
        /\ "apple" \in AttrNameSet(createLog[i].attrs)

\* The children a template gives to its element at position i, as nodes of
\* the instance whose first node is `first`.
TemplateKids(tmpl, i, first) ==
    LET at == SelectSeq([j \in 1..Len(tmpl) |-> j], LAMBDA j : tmpl[j].parent = i)
    IN AsSeq([k \in 1..Len(at) |-> first + at[k] - 1])

\* C6: an instance made from a template with a slot marker holds no slot
\* marker; the content items stand where the marker stood, in their order,
\* between the marker's former siblings; and the instances of two create
\* calls share no node, nor does an instance reuse a node that existed.
C6_SlotFilledFresh ==
    /\ \A i \in 1..Len(createLog) :
          LET e == createLog[i]
              tmpl == components[e.def].template
              sp == tmpl[e.slot - e.first + 1].parent
              before == TemplateKids(tmpl, sp, e.first)
              after == e.instance[sp].kids
              at == IndexOf(before, e.slot)
          IN e.slot # NoNode =>
                /\ ~InSeq(e.slot, after)
                /\ \A k \in 1..Len(e.instance) : ~InSeq(e.slot, e.instance[k].kids)
                /\ SubSeq(after, at, at + Len(e.content) - 1) = e.content
                /\ SubSeq(after, 1, at - 1) = SubSeq(before, 1, at - 1)
                /\ SubSeq(after, at + Len(e.content), Len(after))
                      = SubSeq(before, at + 1, Len(before))
    /\ \A i \in 1..Len(createLog) :
          /\ createLog[i].root = createLog[i].first
          /\ createLog[i].first <= createLog[i].last
          /\ createLog[i].placeholder < createLog[i].first
          /\ \A k \in 1..Len(createLog[i].content) :
                createLog[i].content[k] < createLog[i].first
          /\ \A j \in 1..Len(createLog) :
                i < j => createLog[i].last < createLog[j].first

\* C6 witness: two create calls were made, and one of them slotted two
\* content items between the two siblings of the marker.
C6_Witness ==
    /\ Len(createLog) >= 2
    /\ \E i \in 1..Len(createLog) :
          /\ createLog[i].slot # NoNode
          /\ Len(createLog[i].content) = 2
          /\ Len(createLog[i].instance[1].kids) = 4
          /\ createLog[i].instance[1].kids[2] = createLog[i].content[1]
          /\ createLog[i].instance[1].kids[3] = createLog[i].content[2]

\* ------------------------------------------------------------------------
\* Properties of DomElement and component(cls)
\* ------------------------------------------------------------------------
CallbacksOf(invoked) == AsSeq([i \in 1..Len(invoked) |-> invoked[i].cb])

\* The callbacks registered for an event kind, in the order registered.
RegisteredFor(kind) ==
    LET rs == SelectSeq(regs, LAMBDA r : r.kind = kind)
    IN AsSeq([i \in 1..Len(rs) |-> rs[i].cb])

SignalKind(op) ==
    CASE op = "connected" -> "mount"
      [] op = "disconnected" -> "unmount"
      [] op = "adopted" -> "adopt"
      [] OTHER -> "none"

\* C7: a connected, disconnected or adopted signal invokes the callbacks
\* registered with mountEffect, unmountEffect or adoptEffect respectively,
\* one invocation per registration, in the order registered, without
\* arguments, and nothing else.
C7_LifecycleDispatch ==
    lifeOp.op \in {"connected", "disconnected", "adopted"} =>
        /\ CallbacksOf(lifeOp.invoked) = RegisteredFor(SignalKind(lifeOp.op))
        /\ \A i \in 1..Len(lifeOp.invoked) : lifeOp.invoked[i].args = <<>>

\* C7 witness: a connected signal invoked two different callbacks while a
\* callback registered for another event stayed uninvoked.
C7_Witness ==
    /\ lifeOp.op = "connected"
    /\ Len(lifeOp.invoked) >= 2
    /\ lifeOp.invoked[1].cb # lifeOp.invoked[2].cb
    /\ \E i \in 1..Len(regs) :
          /\ regs[i].kind \in {"unmount", "adopt"}
          /\ \A k \in 1..Len(lifeOp.invoked) : lifeOp.invoked[k].cb # regs[i].cb

\* The change callbacks registered under a name equal to `name` but for
\* the case of its letters, in the order registered.
RegisteredForName(name) ==
    LET rs == SelectSeq(regs, LAMBDA r :
                  r.kind = "change" /\ ToLowerCase(r.name) = ToLowerCase(name))
    IN AsSeq([i \in 1..Len(rs) |-> rs[i].cb])

\* C8: attributeChangedCallback(name, old, new) invokes the callbacks
\* registered with changeEffect under that name, letter case ignored, in
\* the order registered, each with {oldValue: old, newValue: new}; it
\* invokes no other callback and changes no list.
C8_ChangeDispatch ==
    lifeOp.op = "attributeChanged" =>
        /\ CallbacksOf(lifeOp.invoked) = RegisteredForName(lifeOp.name)
        /\ \A i \in 1..Len(lifeOp.invoked) :
              lifeOp.invoked[i].args =
                 <<[oldValue |-> lifeOp.oldValue, newValue |-> lifeOp.newValue]>>

\* C8 witness: a change of NAME invoked, in order, a callback registered
\* under "Name" and another registered under "name", and not the one
\* registered under "Size".
C8_Witness ==
    /\ lifeOp.op = "attributeChanged"
    /\ lifeOp.name = "NAME"
    /\ Len(lifeOp.invoked) = 2
    /\ lifeOp.invoked[1].cb # lifeOp.invoked[2].cb
    /\ \E i, j \in 1..Len(regs) :
          /\ i < j
          /\ regs[i].name = "Name" /\ regs[i].cb = lifeOp.invoked[1].cb
          /\ regs[j].name = "name" /\ regs[j].cb = lifeOp.invoked[2].cb
    /\ \E i \in 1..Len(regs) : regs[i].name = "Size"

\* C8 witness of the other case: a change of a name nothing is registered
\* under invoked nothing.
C8_WitnessNoOp ==
    /\ lifeOp.op = "attributeChanged"
    /\ lifeOp.name = "id"
    /\ \E i \in 1..Len(regs) : regs[i].kind = "change"

NonEmptyCss(css) == css # Undefined /\ css # ""

\* C9: a constructed DomElement has a shadow root of the mode given, "open"
\* when none is given; its children are one style node with the class's
\* css when that css is a non-empty string, none otherwise, followed by
\* the template content as the last child.
C9_ShadowRoot ==
    lastOp.op = "construct" =>
        LET cls == lastOp.cls
            n == Len(inst.shadow)
            styles == SelectSeq(inst.shadow, LAMBDA c : c.kind = "style")
        IN /\ inst.built
           /\ inst.cls = cls
           /\ inst.mode = IF lastOp.args = NoArgs THEN "open"
                          ELSE lastOp.args[1].mode
           /\ n >= 1
           /\ inst.shadow[n].kind = "element"
           /\ inst.shadow[n].markup = cls.template
           /\ IF NonEmptyCss(cls.css)
              THEN /\ n = 2
                   /\ inst.shadow[1] = [kind |-> "style", text |-> cls.css]
              ELSE /\ n = 1
                   /\ styles = <<>>

\* C9 witness: an element of a class without css was built with a closed
\* shadow root.
C9_Witness ==
    /\ lastOp.op = "construct"
    /\ lastOp.cls.css = ""
    /\ inst.mode = "closed"
    /\ Len(inst.shadow) = 1

\* C9 witness of the other cases: a class with css, built without arguments.
C9_WitnessStyled ==
    /\ lastOp.op = "construct"
    /\ lastOp.args = NoArgs
    /\ Len(inst.shadow) = 2

AnonymousMessage ==
    "An anonymous custom element class is missing the static 'tagName' property."

\* C10: component(cls) of a class whose tagName is unset or empty throws
\* and leaves the registry and the list of define calls as they were; an
\* anonymous class gets one message and a named class a message with its
\* name; component(cls) of a class with a tag name makes one define call,
\* with that tag name and that class.
C10_ComponentRegistration ==
    lastOp.op = "component" =>
        LET cls == lastOp.cls
        IN IF cls.tagName = Undefined \/ cls.tagName = ""
           THEN /\ lastOp.threw
                /\ registry = lastOp.registryBefore
                /\ defineCalls = lastOp.definesBefore
                /\ cls.name = "" => lastOp.message = AnonymousMessage
                /\ cls.name # "" =>
                      /\ lastOp.message # AnonymousMessage
                      /\ lastOp.message =
                            "The custom element class '" \o cls.name
                               \o "' is missing the static 'tagName' property."
           ELSE /\ defineCalls = Append(lastOp.definesBefore,
                                        [name |-> cls.tagName, cls |-> cls])
                /\ lastOp.threw \/ [name |-> cls.tagName, cls |-> cls] \in registry

\* C10 witness: component threw for a named class without a tag name after
\* another class had been defined.
C10_Witness ==
    /\ lastOp.op = "component"
    /\ lastOp.threw
    /\ lastOp.cls.name = "UserCard"
    /\ lastOp.cls.tagName = ""
    /\ registry # {}

\* C10 witness of the other cases: an anonymous class without a tag name,
\* and a class with one.
C10_WitnessAnonymous ==
    /\ lastOp.op = "component"
    /\ lastOp.cls.name = ""
    /\ lastOp.cls.tagName = Undefined

C10_WitnessDefined ==
    /\ lastOp.op = "component"
    /\ ~lastOp.threw
    /\ Len(defineCalls) = 2

\* ------------------------------------------------------------------------
\* Properties of the event helpers
\* ------------------------------------------------------------------------
\* An event of the given type at target t invokes cb.
Listens(L, t, type, cb) == InSeq(cb, Invoked(L[t], type))

\* The last operation was a completed on / once / off call with "a b".
MultiNameCall == evOp.op \in EvOps /\ ~evOp.threw /\ evOp.events = EvAB

\* C16 as stated: after any on or once call with "a b", by any of the
\* helpers or the objects built on them, an a-event and a b-event on the
\* target invoke the callback, and after any off call with "a b" neither
\* does.
C16_AllHelpersSplit ==
    MultiNameCall =>
        \A i \in 1..Len(evOp.targets) : \A type \in {EvA, EvB} :
            Listens(listeners, evOp.targets[i], type, evOp.cb)
                <=> (evOp.op # "off")

\* C16 amended: that holds of $.on / once / off and of the wrappers,
\* collections and capability objects built on $; a call of $$.on / once /
\* off, or of an object built on $$, with "a b" registers or removes the
\* callback for the one event type "a b" and leaves what an a-event and a
\* b-event invoke as it was.
C16_MultiEventNames ==
    MultiNameCall =>
        \A i \in 1..Len(evOp.targets) :
            LET t == evOp.targets[i]
            IN IF evOp.helper = "common"
               THEN \A type \in {EvA, EvB} :
                       Listens(listeners, t, type, evOp.cb) <=> (evOp.op # "off")
               ELSE /\ \A type \in {EvA, EvB} :
                          Invoked(listeners[t], type) = Invoked(evOp.before[t], type)
                    /\ Listens(listeners, t, EvAB, evOp.cb) <=> (evOp.op # "off")

\* C16 witness: a collection built on $ took off("a b", cb) after the
\* callback had been listening for a and for b on both of its members.
C16_Witness ==
    /\ MultiNameCall
    /\ evOp.op = "off"
    /\ evOp.helper = "common"
    /\ Len(evOp.targets) = 2
    /\ \A i \in 1..2 : \A type \in {EvA, EvB} :
          Listens(evOp.before, evOp.targets[i], type, evOp.cb)

\* C16 witness of the other case: $$.on(t, "a b", cb).
C16_WitnessGlobal ==
    /\ MultiNameCall
    /\ evOp.op = "on"
    /\ evOp.helper = "global"
    /\ evOp.via = "helper"

\* C19: on, once and off of a wrapper, a collection and a window or
\* document capability object complete and return the object they were
\* called on, and a chained on call registers its callback on the same
\* target.
C19_ChainReturnsSelf ==
    (evOp.op \in EvOps /\ evOp.via = "method") =>
        /\ ~evOp.threw
        /\ evOp.returned = evOp.receiver
        /\ (evOp.chained /\ evOp.op = "on" /\ evOp.events # EvAB) =>
              \A i \in 1..Len(evOp.targets) :
                  Listens(listeners, evOp.targets[i], evOp.events, evOp.cb)

\* ------------------------------------------------------------------------
\* Properties of dom, parse and replaceWith
\* ------------------------------------------------------------------------
\* The elements of the document that match a selector string, in order.
DocMatches(ns, chars) ==
    SelectMatching(ns, Preorder(ns, DocRoot), SelectorText(chars))

\* The markup strings of the model and the elements the host builds from
\* each, and the selector strings.
MarkupStrings == {StrP, StrComment, StrTwo}
SelectorStrings == {SelH3, SelP, SelEm}

\* C12 (the parse path): dom of a markup string either fails with an error
\* or returns a wrapper of the first element built from the markup, a node
\* of the store; it never returns a wrapper of a missing node.
C12_ParseFailsWithoutElement ==
    (domOp.op = "dom" /\ domOp.input.kind = "string"
        /\ domOp.input.chars \in MarkupStrings) =>
        \/ domOp.threw
        \/ /\ domOp.returned # NullWrapper
           /\ wraps[domOp.returned] \in 1..Len(tree)
           /\ tree[wraps[domOp.returned]].tag = InnerHTML(domOp.input.chars)[1].tag

\* C13: dom(input) returns null exactly for a string that is not markup
\* and matches no element of the document; for a selector string with a
\* match the wrapper returned wraps the first match in document order, for
\* a node it wraps that node, and for a wrapper it wraps the node the
\* input wraps.
C13_DomInput ==
    (domOp.op = "dom" /\ ~domOp.threw) =>
        LET input == domOp.input
            r == domOp.returned
        IN /\ (r = NullWrapper) <=>
                 (input.kind = "string" /\ input.chars \in SelectorStrings
                    /\ DocMatches(domOp.treeBefore, input.chars) = <<>>)
           /\ (input.kind = "string" /\ input.chars \in SelectorStrings
                 /\ DocMatches(domOp.treeBefore, input.chars) # <<>>) =>
                 wraps[r] = DocMatches(domOp.treeBefore, input.chars)[1]
           /\ input.kind = "node" => wraps[r] = input.node
           /\ input.kind = "wrapper" =>
                 wraps[r] = domOp.wrapsBefore[input.wrapper]
           /\ tree = domOp.treeBefore \/ input.kind = "string"

\* C13 witness: dom of a wrapper made by an earlier dom call of a selector
\* string with a match.
C13_Witness ==
    /\ domOp.op = "dom"
    /\ domOp.input.kind = "wrapper"
    /\ domOp.input.wrapper = 3
    /\ wraps[3] = 3

\* C13 witness of the null case.
C13_WitnessNull ==
    /\ domOp.op = "dom"
    /\ domOp.input = StringInput(SelEm)
    /\ domOp.returned = NullWrapper

\* The position of node n among the children of p.
ChildIndex(ns, p, n) == IndexOf(ns[p].kids, n)

\* The last call was a completed replaceWith whose content resolved to a
\* node other than the one the wrapper wrapped.
Replaced ==
    /\ domOp.op = "replaceWith"
    /\ ~domOp.threw
    /\ domOp.node # NoNode
    /\ domOp.node # domOp.old

\* After a completed replaceWith: the new node stands where the old node
\* stood, the old node has no parent, and a function given as content was
\* called once, with the wrapper.
ReplacedInTree ==
    LET before == IF domOp.content.kind = "string"
                  THEN DomOf(domOp.treeBefore, domOp.wrapsBefore, domOp.content).ns
                  ELSE domOp.treeBefore
        p == ParentOf(before, domOp.old)
    IN /\ p # NoNode =>
             /\ ParentOf(tree, domOp.node) = p
             /\ ChildIndex(tree, p, domOp.node)
                   = ChildIndex(Detach(before, domOp.node), p, domOp.old)
       /\ ParentOf(tree, domOp.old) = NoNode
       /\ domOp.calls =
             IF domOp.content.kind = "callback" THEN <<domOp.w>> ELSE <<>>

\* C17 as stated: after any completed replaceWith the wrapper it was
\* called on refers to the new node.
C17_WrapperReseated ==
    Replaced =>
        /\ ReplacedInTree
        /\ wraps[domOp.w] = domOp.node

\* C17 amended: the tree part holds of both context modules; the wrapper
\* refers to the new node in the module whose replaceWith assigns #ele
\* (part_004), while in the module with a readonly #ele (part_003) the
\* wrapper keeps the detached old node and the wrapper returned is a new
\* one over the new node.
C17_ReplaceWith ==
    Replaced =>
        /\ ReplacedInTree
        /\ IF ctxVersion = 4
           THEN /\ wraps[domOp.w] = domOp.node
                /\ domOp.returned = domOp.w
           ELSE /\ wraps[domOp.w] = domOp.old
                /\ domOp.returned # domOp.w
                /\ domOp.returned \notin 1..Len(domOp.wrapsBefore)
                /\ wraps[domOp.returned] = domOp.node

\* C17 witness: in the module that reseats, the wrapper over the h3 of the
\* document took a function as content and now wraps the parsed p, which
\* is the first child of the document element.
C17_Witness ==
    /\ Replaced
    /\ ctxVersion = 4
    /\ domOp.w = 1
    /\ domOp.content.kind = "callback"
    /\ tree[wraps[1]].tag = "p"
    /\ tree[DocRoot].kids[1] = wraps[1]

\* C17 witness of the other module: a new wrapper was returned.
C17_WitnessNewWrapper ==
    /\ Replaced
    /\ ctxVersion = 3
    /\ domOp.content.kind = "wrapper"
    /\ domOp.returned = 3

\* ------------------------------------------------------------------------
\* The attribute accessor
\* ------------------------------------------------------------------------
HasAttribute(ns, n, name) == \E i \in 1..Len(ns[n].attrs) : ns[n].attrs[i].name = name

\* The value of an attribute the element has.
ValueOf(ns, n, name) ==
    ns[n].attrs[CHOOSE i \in 1..Len(ns[n].attrs) : ns[n].attrs[i].name = name].value

\* The value attr(name) is to return: that of the attribute, null if absent.
Prior(ns, n, name) ==
    IF HasAttribute(ns, n, name) THEN ValueOf(ns, n, name) ELSE Null

\* Everything but attribute name of element n is as it was.
OthersUnchanged(before, after, n, name) ==
    /\ Len(after) = Len(before)
    /\ \A m \in 1..Len(before) :
          /\ after[m].classes = before[m].classes
          /\ \A other \in AttrNames :
                (m # n \/ other # name) =>
                    Prior(after, m, other) = Prior(before, m, other)

WrapperAttrOf(name) ==
    /\ attrOp.op = "attr"
    /\ attrOp.on = "wrapper"
    /\ attrOp.name = name

\* C14: on any element and for any attribute name X, attr(X) returns null
\* when X is absent (and the value otherwise); after attr(X, v), attr(X)
\* returns v; attr(X, null) removes X; attr(X, f) calls f once, with the
\* prior value (null if absent), and sets X to the result of f, or removes
\* X when the result is null; no other attribute changes in any of these.
C14_AttrAccessor ==
    \A X \in AttrNames :
        WrapperAttrOf(X) =>
            LET b == attrOp.before
                n == attrOp.n
                v == attrOp.value
            IN /\ OthersUnchanged(b, elems, n, X)
               /\ v.kind = "undefined" =>
                     /\ attrOp.ret = RetValue(Prior(b, n, X))
                     /\ ~HasAttribute(b, n, X) => attrOp.ret.v = Null
                     /\ elems = b
               /\ v.kind = "string" =>
                     /\ Attr(elems, n, X, VUndefined).ret = RetValue(v.str)
                     /\ attrOp.calls = <<>>
               /\ v.kind = "null" => ~HasAttribute(elems, n, X)
               /\ v.kind = "function" =>
                     /\ attrOp.calls =
                           <<[fn |-> v.fn, old |-> Prior(b, n, X), index |-> NoIndex]>>
                     /\ LET result == Apply(v, Prior(b, n, X), NoIndex)
                        IN IF result = Null THEN ~HasAttribute(elems, n, X)
                           ELSE Prior(elems, n, X) = result

\* A callback that returns null was called on an attribute the element
\* had, and the attribute is gone.
C14_Witness ==
    /\ \E X \in AttrNames :
          /\ WrapperAttrOf(X)
          /\ attrOp.value.kind = "function"
          /\ HasAttribute(attrOp.before, attrOp.n, X)
          /\ Apply(attrOp.value, Prior(attrOp.before, attrOp.n, X), NoIndex) = Null
          /\ ~HasAttribute(elems, attrOp.n, X)

\* A callback was called with null on an absent attribute and set it.
C14_WitnessAbsent ==
    /\ \E X \in AttrNames :
          /\ WrapperAttrOf(X)
          /\ attrOp.value.kind = "function"
          /\ ~HasAttribute(attrOp.before, attrOp.n, X)
          /\ attrOp.calls # <<>>
          /\ attrOp.calls[1].old = Null
          /\ HasAttribute(elems, attrOp.n, X)

\* ------------------------------------------------------------------------
\* The class methods
\* ------------------------------------------------------------------------
\* The class names an argument list names, and how often each.
NamedBy(classNames) ==
    CASE classNames = <<ClassAB>> -> <<ClassA, ClassB>>
      [] classNames = <<ClassA, ClassB>> -> <<ClassA, ClassB>>
      [] classNames = <<ClassB, ClassB>> -> <<ClassB, ClassB>>
      [] classNames = <<ClassC>> -> <<ClassC>>

SeqToSet(s) == {s[i] : i \in 1..Len(s)}

Occurrences(s, x) == Cardinality({i \in 1..Len(s) : s[i] = x})

ClassNamesUsed == {ClassA, ClassB, ClassC}

WrapperClassOf(op) == attrOp.op = op /\ attrOp.on = "wrapper"

\* C15: addClass("a b") and addClass("a", "b") leave the same class set,
\* the classes the element had and a and b; hasClass is true iff every
\* named class is present; toggleClass flips the membership of each listed
\* name once per occurrence, independently, and leaves unlisted classes
\* as they were.
C15_ClassList ==
    /\ WrapperClassOf("addClass") =>
          SeqToSet(elems[attrOp.n].classes) =
              SeqToSet(attrOp.before[attrOp.n].classes)
                  \cup SeqToSet(NamedBy(attrOp.classNames))
    /\ WrapperClassOf("hasClass") =>
          /\ attrOp.ret.v =
                (SeqToSet(NamedBy(attrOp.classNames))
                     \subseteq SeqToSet(attrOp.before[attrOp.n].classes))
          /\ elems = attrOp.before
    /\ WrapperClassOf("toggleClass") =>
          \A c \in ClassNamesUsed :
              LET was == c \in SeqToSet(attrOp.before[attrOp.n].classes)
                  is == c \in SeqToSet(elems[attrOp.n].classes)
                  flips == Occurrences(NamedBy(attrOp.classNames), c)
              IN is = (IF flips % 2 = 1 THEN ~was ELSE was)

\* addClass("a b") gave a class list both a and b, one of them new.
C15_Witness ==
    /\ WrapperClassOf("addClass")
    /\ attrOp.classNames = <<ClassAB>>
    /\ ClassB \notin SeqToSet(attrOp.before[attrOp.n].classes)
    /\ {ClassA, ClassB} \subseteq SeqToSet(elems[attrOp.n].classes)

\* toggleClass("b", "b") flipped b twice and left the list as it was.
C15_WitnessToggleTwice ==
    /\ WrapperClassOf("toggleClass")
    /\ attrOp.classNames = <<ClassB, ClassB>>
    /\ SeqToSet(elems[attrOp.n].classes) = SeqToSet(attrOp.before[attrOp.n].classes)

\* ------------------------------------------------------------------------
\* The collection
\* ------------------------------------------------------------------------
\* The same wrapper operation on each member in turn, once, in member
\* order; a callback is handed on closed over the index of the member.
RECURSIVE EachMemberAttr(_, _, _, _, _)
EachMemberAttr(st, ms, i, name, value) ==
    IF i > Len(ms) THEN st
    ELSE LET v == IF value.kind = "function"
                  THEN VFunction(value.fn, i - 1) ELSE value
             r == Attr(st.ns, ms[i], name, v)
         IN EachMemberAttr([ns |-> r.ns, calls |-> st.calls \o r.calls],
                           ms, i + 1, name, value)

RECURSIVE EachMemberClass(_, _, _, _)
EachMemberClass(ns, ms, op, classNames) ==
    IF ms = <<>> THEN ns
    ELSE EachMemberClass(ClassCall(ns, Head(ms), op, classNames).ns,
                         Tail(ms), op, classNames)

CollectionOp(op) == attrOp.op = op /\ attrOp.on = "collection"

\* C18: a mutating operation on a collection does what the same wrapper
\* operation does when applied to each member once in member order, a
\* callback receiving the old value of the member and its index; a getter
\* returns a list with the result of the i-th member at i; the members are
\* the inputs that have an element, in the order given, duplicates kept.
C18_CollectionBroadcast ==
    /\ members = SelectSeq(given, LAMBDA x : x # NoElement)
    /\ (CollectionOp("attr") /\ attrOp.name # Undefined
            /\ attrOp.value.kind # "undefined") =>
          LET st == EachMemberAttr([ns |-> attrOp.before, calls |-> <<>>],
                                   members, 1, attrOp.name, attrOp.value)
          IN /\ elems = st.ns
             /\ attrOp.calls = st.calls
             /\ attrOp.ret = RetThis
    /\ (CollectionOp("attr") /\ attrOp.value.kind = "undefined") =>
          /\ attrOp.ret.kind = "list"
          /\ Len(attrOp.ret.l) = Len(members)
          /\ \A i \in 1..Len(members) :
                attrOp.ret.l[i] =
                    Attr(attrOp.before, members[i], attrOp.name, VUndefined).ret.v
          /\ elems = attrOp.before
    /\ \A op \in {"addClass", "removeClass", "toggleClass"} :
          CollectionOp(op) =>
              elems = EachMemberClass(attrOp.before, members, op, attrOp.classNames)

\* A callback form ran on a collection that holds an element twice: the
\* second call for that element got the value the first one had set.
C18_Witness ==
    /\ CollectionOp("attr")
    /\ attrOp.value.kind = "function"
    /\ Len(attrOp.calls) = 3
    /\ attrOp.calls[1].index = 0
    /\ attrOp.calls[3].index = 2
    /\ attrOp.calls[3].old # attrOp.calls[1].old
    /\ members[1] = members[3]

\* A getter returned one entry for each member of such a collection.
C18_WitnessGetter ==
    /\ CollectionOp("attr")
    /\ attrOp.name = "title"
    /\ attrOp.value.kind = "undefined"
    /\ Len(members) = 3
    /\ attrOp.ret.l = <<"t", "", "t">>

\* ------------------------------------------------------------------------
\* Listeners from the html template
\* ------------------------------------------------------------------------
\* The event an attribute name written in a template names: the name
\* without its "on", in lower case; none for a name that does not begin
\* with "on".
NoEvent == <<>>
EventNamed(name) ==
    CASE name = OnClick -> Click
      [] name = OnClickCamel -> Click
      [] name = Title -> NoEvent
      [] name = DataOn -> NoEvent

\* The name the parsed element carries the attribute under.
NameParsed(name) ==
    CASE name = OnClickCamel -> OnClick
      [] OTHER -> name

\* The last html call returned the first element written in its template.
ReturnedWritten ==
    /\ hCall.op = "html"
    /\ ~hCall.hung
    /\ ~hCall.threw
    /\ hCall.tmpl[2].hole = NoHole
    /\ hCall.ret = hCall.root + 1

\* The attributes of that element that were given a function.
CallableAttrs ==
    {a \in SeqToSet(hCall.tmpl[2].attrs) :
        /\ a.value.hole # NoHole
        /\ hCall.values[a.value.hole + 1].kind = "function"}

FnOf(a) == hCall.values[a.value.hole + 1].fn

\* C11: on the element html returns, a function interpolated as the value
\* of an attribute whose name begins with "on" is a listener for the event
\* named by the rest of the name in lower case, so that an event of that
\* type invokes it exactly once, and the element has no such attribute; a
\* function interpolated into an attribute of another name is no listener.
C11_OnAttributeListens ==
    ReturnedWritten =>
        /\ \A a \in CallableAttrs :
              EventNamed(a.name) # NoEvent =>
                  /\ \E i \in 1..Len(hLs[hCall.ret]) :
                        /\ hLs[hCall.ret][i].type = EventNamed(a.name)
                        /\ hLs[hCall.ret][i].cb = FnOf(a)
                  /\ ~HasAttribute(hTree, hCall.ret, NameParsed(a.name))
                  /\ (/\ hClick.op = "dispatch"
                      /\ hClick.target = hCall.ret
                      /\ hClick.type = EventNamed(a.name))
                        => Occurrences(hClick.invoked, FnOf(a)) = 1
        /\ \A i \in 1..Len(hLs[hCall.ret]) :
              \E a \in CallableAttrs :
                  /\ EventNamed(a.name) = hLs[hCall.ret][i].type
                  /\ FnOf(a) = hLs[hCall.ret][i].cb

\* html`<button onClick=${f} title=${g}>` returned a button, and a click
\* on it invoked f and nothing else; the title is still there.
C11_Witness ==
    /\ ReturnedWritten
    /\ hCall.tmpl = TplCamel
    /\ hCall.values = <<FnValue("f"), FnValue("g")>>
    /\ hClick.op = "dispatch"
    /\ hClick.target = hCall.ret
    /\ hClick.type = Click
    /\ hClick.invoked = <<"f">>
    /\ HasAttribute(hTree, hCall.ret, Title)
    /\ ~HasAttribute(hTree, hCall.ret, OnClick)

\* html`<button data-on=${f}>` returned a button without a listener.
C11_WitnessOtherName ==
    /\ ReturnedWritten
    /\ hCall.tmpl = TplData
    /\ hCall.values = <<FnValue("f")>>
    /\ hLs[hCall.ret] = <<>>
    /\ HasAttribute(hTree, hCall.ret, DataOn)

\* ------------------------------------------------------------------------
\* Definitions that lead back to themselves
\* ------------------------------------------------------------------------
\* The definitions whose output holds, directly or through the templates
\* of the other definitions, a placeholder of their own.
SelfReferring(comps) ==
    {i \in 1..Len(comps) :
        i \in ReachedFrom(comps, {j \in 1..Len(comps) : Produces(comps, i, j)},
                          Len(comps))}

\* The element or one of its descendants is a placeholder of the selector.
HoldsPlaceholder(ns, e, selector) ==
    \E m \in SeqToSet(Preorder(ns, e)) : Matches(ns, m, selector)

\* use was called on a tree that held a placeholder of such a definition.
CalledOnCycle ==
    /\ useCalls >= 1
    /\ \E i \in SelfReferring(components) :
          HoldsPlaceholder(nodesAtCall, eleAtCall, components[i].selector)

EndOfPass == pc = "scan" /\ ci > Len(components)

\* C20: when the output of a definition holds, directly or through the
\* other definitions, a placeholder of its own, a call of use on a tree
\* with one such placeholder does not return: at the end of every pass
\* changed is set, so another pass follows, however many there were.
C20_NeverReturns ==
    CalledOnCycle =>
        /\ ~Returned
        /\ EndOfPass => changed

\* Two definitions that render each other's placeholder are in their
\* fourth pass, the third having ended with changed set.
C20_Witness ==
    /\ CalledOnCycle
    /\ Len(components) = 2
    /\ passes >= 4
    /\ Len(createLog) >= 6

\* A definition that renders its own placeholder: the end of a third pass.
C20_WitnessDirect ==
    /\ CalledOnCycle
    /\ Len(components) = 1
    /\ passes >= 3
    /\ EndOfPass
    /\ changed

\* ------------------------------------------------------------------------
\* The order use resolves placeholders in
\* ------------------------------------------------------------------------
\* What the scan in progress has resolved so far.
ScanLog ==
    SelectSeq(createLog,
              LAMBDA e : e.call = useCalls /\ e.pass = passes /\ e.def = ci)

Placeholders(log) == AsSeq([i \in 1..Len(log) |-> log[i].placeholder])

\* The match list of the scan in progress as it was taken: what has been
\* resolved, and what is still to come.
MatchList == Placeholders(ScanLog) \o SubSeq(prebuild, idx, Len(prebuild))

\* The element and its descendants that match, in document order.
MatchesInOrder(ns, e, selector) ==
    SelectSeq(Preorder(ns, e), LAMBDA m : Matches(ns, m, selector))

\* Within a call the log runs pass by pass, and within a pass definition
\* by definition in argument order.
LogInArgumentOrder ==
    \A i, j \in 1..Len(createLog) :
        (i < j /\ createLog[i].call = createLog[j].call) =>
            /\ createLog[i].pass <= createLog[j].pass
            /\ createLog[i].pass = createLog[j].pass =>
                  createLog[i].def <= createLog[j].def

\* The list as taken: the root first if it matches, then the matching
\* descendants in document order, nothing resolved yet.
ListTakenInDocumentOrder ==
    (pc = "item" /\ idx = 1) =>
        /\ ScanLog = <<>>
        /\ prebuild = MatchesInOrder(nodes, ele, components[ci].selector)

\* A turn of the forEach resolves the entry at idx of the list as it was
\* taken, that one only, and the list is as it was.
TurnResolvesNext ==
    (pc = "item" /\ pc' = "item") =>
        /\ MatchList' = MatchList
        /\ Len(createLog') = Len(createLog) + 1
        /\ createLog'[Len(createLog')].placeholder = MatchList[idx]
        /\ createLog'[Len(createLog')].def = ci
        /\ idx' = idx + 1

\* C21: in every pass the definitions are taken in argument order; the
\* match list of a definition is computed once, before any replacement,
\* the root first if it matches and then the descendants in document
\* order; every entry of it is resolved once, in that order, whatever the
\* earlier replacements did to the later entries.
C21_ResolutionOrder ==
    /\ [](LogInArgumentOrder /\ ListTakenInDocumentOrder)
    /\ [][TurnResolvesNext]_vars

\* A placeholder was resolved that an earlier replacement of the same list
\* had moved: it was a child of a placeholder resolved before it.
C21_Witness ==
    /\ Len(ScanLog) >= 2
    /\ InSeq(ScanLog[2].placeholder, ScanLog[1].content)
    /\ ScanLog[1].wasRoot

\* ------------------------------------------------------------------------
\* The children of a placeholder
\* ------------------------------------------------------------------------
\* How many child lists hold the node.
ParentCount(ns, n) == Cardinality({p \in 1..Len(ns) : InSeq(n, ns[p].kids)})

IsPlaceholder(n) ==
    \E d \in 1..Len(components) : Matches(nodes, n, components[d].selector)

\* The last placeholder resolved had children and its definition a slot
\* marker.
LastSlotted ==
    /\ createLog # <<>>
    /\ createLog[Len(createLog)].slot # NoNode
    /\ createLog[Len(createLog)].content # <<>>

\* C22: when use resolves a placeholder with child elements and the
\* template of the definition has a slot marker, the instance stands in
\* the tree and the children are in it where the marker stood, in their
\* order, each once and nowhere else; and when use returns, every
\* placeholder among such children has been resolved in its turn.
C22_ChildrenSlotted ==
    /\ LastSlotted =>
          LET e == createLog[Len(createLog)]
              tmpl == components[e.def].template
              sp == tmpl[e.slot - e.first + 1].parent
              at == IndexOf(TemplateKids(tmpl, sp, e.first), e.slot)
              holder == e.first + sp - 1
          IN /\ InSeq(e.root, Preorder(nodes, ele))
             /\ InSeq(holder, Preorder(nodes, e.root))
             /\ SubSeq(nodes[holder].kids, at, at + Len(e.content) - 1) = e.content
             /\ \A k \in 1..Len(e.content) : ParentCount(nodes, e.content[k]) = 1
             /\ \A k, l \in 1..Len(e.content) :
                   k # l => e.content[k] # e.content[l]
             /\ nodes[e.placeholder].kids = <<>>
    /\ Returned =>
          \A i \in 1..Len(createLog) :
              (createLog[i].call = useCalls /\ createLog[i].slot # NoNode) =>
                  \A k \in 1..Len(createLog[i].content) :
                      IsPlaceholder(createLog[i].content[k]) =>
                          /\ ~InSeq(createLog[i].content[k], Preorder(nodes, ele))
                          /\ \E j \in 1..Len(createLog) :
                                /\ j > i
                                /\ createLog[j].call = useCalls
                                /\ createLog[j].placeholder = createLog[i].content[k]

\* use has returned after slotting three children, placeholders themselves,
\* into an instance.
C22_Witness ==
    /\ Returned
    /\ \E i \in 1..Len(createLog) :
          /\ createLog[i].call = useCalls
          /\ createLog[i].slot # NoNode
          /\ Len(createLog[i].content) = 3
          /\ \A k \in 1..3 : IsPlaceholder(createLog[i].content[k])

\* A placeholder with two children has just been resolved.
C22_WitnessJustSlotted ==
    /\ LastSlotted
    /\ pc = "item"
    /\ Len(createLog[Len(createLog)].content) >= 2

\* ------------------------------------------------------------------------
\* Errors while use is in progress
\* ------------------------------------------------------------------------
Threw == pc = "idle" /\ ret \in {"TypeError", "Error"}

\* The turn that is next cannot be made: the argument is no component, or
\* create fails.
AboutToFail ==
    \/ pc = "scan" /\ ci <= Len(components) /\ ~IsComponent(components[ci])
    \/ pc = "item" /\ idx <= Len(prebuild) /\ CreateFails(components[ci])

\* The error leaves the call at that point, with everything the call has
\* done still done.
FailureLeavesAtOnce ==
    AboutToFail =>
        /\ Threw'
        /\ nodes' = nodes
        /\ ele' = ele
        /\ createLog' = createLog
        /\ passes' = passes

\* Every replacement of the call that failed is in the tree: the
\* placeholder is out, the instance in.
ReplacementsStay ==
    Threw =>
        \A i \in 1..Len(createLog) :
            createLog[i].call = useCalls =>
                /\ ~InSeq(createLog[i].placeholder, Preorder(nodes, ele))
                /\ InSeq(createLog[i].root, Preorder(nodes, ele))

\* C23: when an argument of use is no component, or create or the
\* renderer fails, the error leaves use at that point, nothing is tried
\* again or instead, and the replacements made before in this pass and in
\* the passes before are still in the tree.
C23_ErrorsPropagate ==
    /\ []ReplacementsStay
    /\ [][FailureLeavesAtOnce]_vars

\* create failed in the second pass, after a replacement in the first.
C23_Witness ==
    /\ Threw
    /\ ret = "Error"
    /\ passes = 2
    /\ \E i \in 1..Len(createLog) :
          createLog[i].call = useCalls /\ createLog[i].pass = 1

\* An argument that is no component ended the first pass after a
\* replacement in it.
C23_WitnessNotComponent ==
    /\ Threw
    /\ ret = "TypeError"
    /\ passes = 1
    /\ \E i \in 1..Len(createLog) : createLog[i].call = useCalls

\* ------------------------------------------------------------------------
\* The walk of html over markers of elements
\* ------------------------------------------------------------------------
\* The elements below the template content after the call.
ContentElements == Preorder(hTree, hCall.root)

\* No element of the result carries the tag of a marker.
NoMarkerLeft ==
    \A i \in 1..Len(ContentElements) :
        TagMatch(hTree[ContentElements[i]].tag) = NoHole

\* No attribute of the result still holds the placeholder of a function
\* under a name that starts with "on".
NoBindingLeft ==
    \A i \in 1..Len(ContentElements) :
        \A j \in 1..Len(hTree[ContentElements[i]].attrs) :
            LET attr == hTree[ContentElements[i]].attrs[j]
            IN ~ /\ FnMatch(attr.value) # NoHole
                 /\ StartsWith(attr.name, On)
                 /\ hCall.values[FnMatch(attr.value) + 1].kind = "function"

\* C24: html with values that are elements comes to an end with every
\* marker replaced by its element and with every binding of a function
\* made, those after a replaced marker in document order included.
C24_WalkGoesOnAfterMarker ==
    hCall.op = "html" =>
        /\ ~hCall.hung
        /\ NoMarkerLeft
        /\ NoBindingLeft

\* ------------------------------------------------------------------------
\* The template element and the shadow root
\* ------------------------------------------------------------------------
\* The element the constructor has appended as the template content.
ShadowContent == inst.shadow[Len(inst.shadow)].node

\* A constructor was given an element by template().
BuiltFromElement == lastOp.op = "construct" /\ lastOp.tpl = "element"

\* C25 as stated: whatever the constructor, the element that template()
\* returns is not the node in the shadow root and has the parent it had.
C25_TemplateNeverMoved ==
    BuiltFromElement =>
        /\ ShadowContent # TemplateElement
        /\ tplParent = lastOp.parentBefore

\* C25: the constructor of part_008 appends a clone, a new node, and the
\* element that template() returns has the parent it had (or none, as
\* before); the constructor of component.ts appends that element itself,
\* which is then a child of the shadow root and of no other parent.
C25_TemplateCloneOrMove ==
    BuiltFromElement =>
        IF lastOp.cloning
        THEN /\ ShadowContent # TemplateElement
             /\ ShadowContent > lastOp.templateNode
             /\ tplParent = lastOp.parentBefore
        ELSE /\ ShadowContent = TemplateElement
             /\ tplParent = "shadow"

\* The cloning constructor was given an element that stands below another.
C25_Witness ==
    /\ BuiltFromElement
    /\ lastOp.cloning
    /\ lastOp.parentBefore = "holder"
    /\ tplParent = "holder"

\* The constructor of component.ts has taken the element from its parent.
C25_WitnessMoved ==
    /\ BuiltFromElement
    /\ ~lastOp.cloning
    /\ lastOp.parentBefore = "holder"
    /\ tplParent = "shadow"

\* The cloning constructor was given a detached element.
C25_WitnessDetached ==
    /\ BuiltFromElement
    /\ lastOp.cloning
    /\ lastOp.parentBefore = "none"
    /\ tplParent = "none"

\* ------------------------------------------------------------------------
\* The callback lists of DomElement instances
\* ------------------------------------------------------------------------
\* s is the beginning of t.
IsPrefix(s, t) == Len(s) <= Len(t) /\ SubSeq(t, 1, Len(s)) = s

\* Every list goes on as it was: nothing is removed, nothing moves.
ListsOnlyGrow ==
    \A x \in Instances : \A kind \in Kinds :
        IsPrefix(lists[x][kind], lists'[x][kind])

\* Only the list the dispatch walks can grow while it runs.
OtherListsUntouched ==
    run.on =>
        \A x \in Instances : \A kind \in Kinds :
            (x # run.inst \/ kind # run.kind) => lists'[x][kind] = lists[x][kind]

\* What a dispatch has invoked is, turn by turn, the list of the instance
\* signalled for the signal given: no callback of another instance or of
\* another signal among them.
FiredFromOwnList ==
    /\ Len(fired) <= Len(lists[run.inst][run.kind])
    /\ \A q \in 1..Len(fired) : fired[q] = lists[run.inst][run.kind][q]

\* When the dispatch has ended, every callback registered before it began
\* has been invoked.
RegisteredAllFired ==
    run.ended =>
        \A p \in 1..run.atStart :
            p <= Len(fired) /\ fired[p] = lists[run.inst][run.kind][p]

\* C26: the callback lists belong to one instance each and only grow at
\* the end: no registration and no dispatch removes or moves a callback,
\* a registered callback is invoked by every later signal of its kind to
\* its instance, and by no signal to another instance.
C26_PerInstanceAppendOnly ==
    /\ [](FiredFromOwnList /\ RegisteredAllFired)
    /\ [][ListsOnlyGrow /\ OtherListsUntouched]_vars

\* The second signal of a kind to an instance has invoked the callback
\* registered before the first, and the other instance has a callback for
\* the same signal that was not invoked.
C26_Witness ==
    /\ run.ended
    /\ signals = 2
    /\ Len(fired) = 1
    /\ \E x \in Instances :
          /\ x # run.inst
          /\ lists[x][run.kind] # <<>>
          /\ lists[x][run.kind] # lists[run.inst][run.kind]

\* ------------------------------------------------------------------------
\* Registration while a dispatch runs
\* ------------------------------------------------------------------------
\* A callback of the running dispatch has registered itself anew.
LoopInvoked == run.on /\ InSeq("loop", fired)

\* The dispatch that ends has invoked the list as it is at the end,
\* every entry once and in order, those registered meanwhile included.
EndsAfterWholeList ==
    (run.on /\ run'.ended) => fired = lists[run.inst][run.kind]

\* A dispatch in which a callback registers itself every time has a turn
\* left after every turn.
LoopHasNoEnd ==
    LoopInvoked => run.i <= Len(lists[run.inst][run.kind])

\* A dispatch whose list holds no such callback comes to its end.
NoLoopListed == run.on /\ ~InSeq("loop", lists[run.inst][run.kind])

\* C29: the dispatch goes by index against the length the list has at
\* each turn: a callback registered for the same signal during the
\* dispatch is invoked later in it, none is invoked twice, and a dispatch
\* with a callback that registers a callback at every invocation does
\* not end, while any other does.
C29_DispatchByCurrentLength ==
    /\ [][EndsAfterWholeList]_vars
    /\ []LoopHasNoEnd
    /\ [](LoopInvoked => []~run.ended)
    /\ (NoLoopListed ~> run.ended)

\* A dispatch has ended that invoked once and then late, which once
\* registered in it.
C29_Witness ==
    /\ run.ended
    /\ run.atStart = 1
    /\ fired = <<"once", "late">>

\* A dispatch has invoked loop three times and has the fourth before it.
C29_WitnessLoop ==
    /\ run.on
    /\ run.atStart = 1
    /\ fired = <<"loop", "loop", "loop">>
    /\ run.i = 4
    /\ Len(lists[run.inst][run.kind]) = 4

\* ------------------------------------------------------------------------
\* off and the registrations it leaves
\* ------------------------------------------------------------------------
\* The event types an off call names: the pieces of the argument for $,
\* the argument as it is for $$.
TypesNamed ==
    IF evOp.helper = "common" THEN SeqToSet(Split(evOp.events, Space))
    ELSE {evOp.events}

\* An off call that reached a helper with a target.
OffCall ==
    /\ evOp.op = "off"
    /\ IF evOp.via = "helper" THEN TRUE ELSE ~evOp.threw

\* The registration is the one the call names.
NamedByOff(t, l) ==
    /\ InSeq(t, evOp.targets)
    /\ l.type \in TypesNamed
    /\ l.cb = evOp.cb

\* C27: off removes from its target the registration of the event name
\* and the callback given, and no other: every other registration, of
\* that target and of the others, is where it was, and an off that names
\* no registration changes nothing and raises no error.
C27_OffRemovesOnlyNamed ==
    OffCall =>
        /\ ~evOp.threw
        /\ \A t \in EvTargets :
              listeners[t] =
                  SelectSeq(evOp.before[t], LAMBDA l : ~NamedByOff(t, l))

\* off has removed a registration and left another of the same target.
C27_Witness ==
    /\ OffCall
    /\ \E t \in EvTargets :
          /\ listeners[t] # <<>>
          /\ Len(listeners[t]) < Len(evOp.before[t])

\* off for a callback that is registered for another event only.
C27_WitnessNotRegistered ==
    /\ OffCall
    /\ listeners = evOp.before
    /\ \E t \in EvTargets : \E i \in 1..Len(listeners[t]) :
          /\ InSeq(t, evOp.targets)
          /\ listeners[t][i].cb = evOp.cb
          /\ listeners[t][i].type \notin TypesNamed

\* ------------------------------------------------------------------------
\* insert, append, prepend, before and after
\* ------------------------------------------------------------------------
Inserted == domOp.op = "insert"

\* The element of the wrapper the call was made on.
InsertTarget == domOp.wrapsBefore[domOp.w]

\* The element the items become children of.
InsertAnchor ==
    IF InsertTarget = UndefinedNode THEN NoNode
    ELSE IF domOp.where \in {"afterbegin", "beforeend"} THEN InsertTarget
    ELSE ParentOf(tree, InsertTarget)

\* The items that stood for a node, as nodes in the order of the items.
ResolvedNodes ==
    LET hit == SelectSeq(domOp.log, LAMBDA h : h.node # NoNode)
    IN AsSeq([i \in 1..Len(hit) |-> hit[i].node])

\* The node an item is to stand for, by the kind of the item: the node
\* given, the element of the wrapper given, the first element the markup
\* makes, a new one, or the first match of the selector in the document.
\* No item of the model changes what a selector after it matches.
StandsFor(item, node) ==
    CASE item.kind = "node" -> node = item.node
      [] item.kind = "wrapper" -> node = domOp.wrapsBefore[item.wrapper]
      [] IsHTML(item.chars) ->
            IF InnerHTML(item.chars) = <<>> THEN node = NoNode
            ELSE /\ node > Len(domOp.treeBefore)
                 /\ tree[node].tag = InnerHTML(item.chars)[1].tag
      [] OTHER ->
            node = QuerySelector(domOp.treeBefore, DocRoot,
                                 SelectorText(item.chars))

\* C28: insert, and append, prepend, before and after through it, takes
\* the items in the order given, calls the host's insertAdjacentElement
\* once for each item that stands for a node, in that order and with the
\* one position, passes over an item that stands for none and goes on
\* with the next, and returns the wrapper it was called on.
C28_OneInsertPerItem ==
    Inserted =>
        /\ Len(domOp.log) <= Len(domOp.contents)
        /\ \A i \in 1..Len(domOp.log) :
              /\ domOp.log[i].item = domOp.contents[i]
              /\ StandsFor(domOp.log[i].item, domOp.log[i].node)
        /\ domOp.calls =
              AsSeq([i \in 1..Len(ResolvedNodes) |->
                        HostCall(domOp.where, ResolvedNodes[i])])
        /\ domOp.where = PositionOf(domOp.method, domOp.where)
        /\ ~domOp.threw =>
              /\ Len(domOp.log) = Len(domOp.contents)
              /\ domOp.returned = domOp.w
              /\ InsertAnchor # NoNode =>
                    \A i \in 1..Len(ResolvedNodes) :
                        ParentOf(tree, ResolvedNodes[i]) = InsertAnchor

\* after was given markup, a selector without match and a node: two host
\* calls, for the first and the third.
C28_Witness ==
    /\ Inserted
    /\ domOp.method = "after"
    /\ ~domOp.threw
    /\ Len(domOp.contents) = 3
    /\ domOp.log[2].node = NoNode
    /\ Len(domOp.calls) = 2
    /\ InsertAnchor # NoNode

Reverse(s) == AsSeq([i \in 1..Len(s) |-> s[Len(s) + 1 - i]])

\* The items stand for nodes that differ from each other and from the
\* element of the wrapper, and there is a place for them.
DistinctItems ==
    /\ Inserted
    /\ ~domOp.threw
    /\ InsertAnchor # NoNode
    /\ \A i, j \in 1..Len(ResolvedNodes) :
          i # j => ResolvedNodes[i] # ResolvedNodes[j]
    /\ ~InSeq(InsertTarget, ResolvedNodes)

\* C30: prepend and after put every item at the same place, the first
\* child and the next sibling, so that the items stand in the tree in the
\* reverse of the order given; append and before leave them in the
\* order given, as the last children and right before the element.
C30_OrderInTree ==
    DistinctItems =>
        LET kids == tree[InsertAnchor].kids
            n == Len(ResolvedNodes)
            t == IF InSeq(InsertTarget, kids) THEN IndexOf(kids, InsertTarget)
                 ELSE 0
        IN CASE domOp.where = "afterbegin" ->
                    SubSeq(kids, 1, n) = Reverse(ResolvedNodes)
             [] domOp.where = "afterend" ->
                    SubSeq(kids, t + 1, t + n) = Reverse(ResolvedNodes)
             [] domOp.where = "beforeend" ->
                    SubSeq(kids, Len(kids) - n + 1, Len(kids)) = ResolvedNodes
             [] domOp.where = "beforebegin" ->
                    /\ t > n
                    /\ SubSeq(kids, t - n, t - 1) = ResolvedNodes

\* prepend of three items: the third is the first child, the first the
\* third.
C30_Witness ==
    /\ DistinctItems
    /\ domOp.method = "prepend"
    /\ Len(ResolvedNodes) = 3
    /\ Head(tree[InsertAnchor].kids) = ResolvedNodes[3]

\* before of three items: they stand before the element as given.
C30_WitnessBefore ==
    /\ DistinctItems
    /\ domOp.method = "before"
    /\ Len(ResolvedNodes) = 3

====
